---- MODULE Spec2Model ----
(***************************************************************************)
(* Model of the legal case similarity system: the case repository          *)
(* (backend/src/components/case_repository.py) with its metadata file and  *)
(* vector file, the similarity search engine                               *)
(* (src/components/similarity_search_engine.py) and the vectorizer         *)
(* (backend/src/components/legal_vectorizer.py).                           *)
(***************************************************************************)
EXTENDS Integers, Sequences, FiniteSets, TLC

(***************************************************************************)
(* Bounds of the model.                                                    *)
(***************************************************************************)
\* CaseRepository.MAX_REPOSITORY_SIZE is 1000 in the source
\* (case_repository.py:30); the model scales it down so that a full
\* repository is reachable.  Both capacity checks are written against it.
MAX_REPOSITORY_SIZE == 3

\* The number of writes that fail (I/O error or crash) in one behaviour
MaxFaults == 1

\* The largest number of rows of a search corpus, and the largest k
MaxCorpus == 3
MaxK == 4

\* The calls counted after the call of preprocess that later ones are
\* compared with
MaxBetween == 2

\* The smallest and the largest number of terms a vocabulary file may hold
\* (200 and 300 in the program)
MinVocabularyTerms == 2
MaxVocabularyTerms == 3

\* The number of track_operation blocks entered in one behaviour
MaxBlocks == 3

(***************************************************************************)
(* Python values.  A value carries its type, so that the isinstance tests  *)
(* of the validation code are decided by the value and not assumed.        *)
(***************************************************************************)
PyStr(s) == [s |-> s, t |-> "str", n |-> 0]
PyInt(n) == [s |-> "", t |-> "int", n |-> n]
PyDict == [s |-> "", t |-> "dict", n |-> 0]
PyNone == [s |-> "", t |-> "none", n |-> 0]

\* str.strip(): the strings of the model that consist of whitespace only
\* strip to the empty string, every other string is kept.
strip(s) == IF s \in {"", " "} THEN "" ELSE s

\* datetime.isoformat() of the dates the model uses, and the strings
\* datetime.fromisoformat() accepts among the strings of the model.
IsoDate == "2024-01-01T00:00:00"
fromisoformat_ok(s) == s = IsoDate

\* dict.update() with the precedence reversed: the keys of a are kept.
dict_update_keep_old(a, b) ==
    [k \in (DOMAIN a) \cup (DOMAIN b) |-> IF k \in DOMAIN a THEN a[k] ELSE b[k]]

\* dict.update(): the keys of b override those of a.
dict_update(a, b) ==
    [k \in (DOMAIN a) \cup (DOMAIN b) |-> IF k \in DOMAIN b THEN b[k] ELSE a[k]]

(***************************************************************************)
(* CaseRepository class attributes.                                        *)
(***************************************************************************)
REQUIRED_CASE_FIELDS == {"case_id", "title", "date", "file_path"}
SCHEMA_VERSION == "1.0"

\* datetime.now() at construction, and at any later call.
InitTime == 0
LaterTime == 1

(***************************************************************************)
(* CaseDocument.to_dict                                                    *)
(***************************************************************************)
to_dict(doc) ==
    [k \in {"case_id", "title", "date", "file_path", "metadata"} |->
        CASE k = "case_id" -> PyStr(doc.case_id)
          [] k = "title" -> PyStr(doc.title)
          [] k = "date" -> PyStr(IsoDate)
          [] k = "file_path" -> PyStr(doc.file_path)
          [] OTHER -> PyDict]

(***************************************************************************)
(* CaseRepository._validate_case_metadata: the list of error messages.     *)
(***************************************************************************)
validate_case_metadata(case_data) ==
    LET keys == DOMAIN case_data
        bad_str(k) == case_data[k].t # "str" \/ strip(case_data[k].s) = ""
        e_missing == IF REQUIRED_CASE_FIELDS \ keys # {}
                     THEN <<"Missing required fields">> ELSE <<>>
        e_case_id == IF "case_id" \in keys /\ bad_str("case_id")
                     THEN <<"case_id must be a non-empty string">> ELSE <<>>
        e_title == IF "title" \in keys /\ bad_str("title")
                   THEN <<"title must be a non-empty string">> ELSE <<>>
        e_date == IF "date" \in keys
                  THEN IF case_data["date"].t = "str"
                       THEN IF fromisoformat_ok(case_data["date"].s) THEN <<>>
                            ELSE <<"date must be a valid ISO format datetime string">>
                       ELSE <<"date must be a string in ISO format">>
                  ELSE <<>>
        e_file_path == IF "file_path" \in keys /\ bad_str("file_path")
                       THEN <<"file_path must be a non-empty string">> ELSE <<>>
        e_vector_index ==
            IF "vector_index" \in keys
               /\ (case_data["vector_index"].t # "int" \/ case_data["vector_index"].n < 0)
            THEN <<"vector_index must be a non-negative integer">> ELSE <<>>
        e_metadata ==
            IF "metadata" \in keys /\ case_data["metadata"].t # "none"
               /\ case_data["metadata"].t # "dict"
            THEN <<"metadata must be a dictionary">> ELSE <<>>
    IN e_missing \o e_case_id \o e_title \o e_date \o e_file_path
         \o e_vector_index \o e_metadata

(***************************************************************************)
(* The metadata file.  kind is "absent" (no file), "badjson" (a file that  *)
(* json.load rejects, such as one truncated by an interrupted write) or    *)
(* "json"; keys are the top-level keys of the document, cases its cases    *)
(* array, and the other fields its metadata envelope.  defects lists what  *)
(* is wrong with the types of a document that has the keys: "cases" that   *)
(* is not a list, "metadata" that is not a dict, or a metadata dict that   *)
(* lacks one of its five fields.                                           *)
(***************************************************************************)
MetaDoc(cases, created_at, last_updated, total_cases) ==
    [kind |-> "json", keys |-> {"cases", "metadata"}, defects |-> {},
     cases |-> cases, created_at |-> created_at, last_updated |-> last_updated,
     total_cases |-> total_cases]

AbsentMeta ==
    [kind |-> "absent", keys |-> {}, defects |-> {}, cases |-> <<>>,
     created_at |-> 0, last_updated |-> 0, total_cases |-> 0]

BadJsonMeta ==
    [kind |-> "badjson", keys |-> {}, defects |-> {}, cases |-> <<>>,
     created_at |-> 0, last_updated |-> 0, total_cases |-> 0]

\* CaseRepository._initialize_metadata_file at time now
initialize_metadata_file(now) == MetaDoc(<<>>, now, now, 0)

\* CaseRepository._validate_metadata_structure
validate_metadata_structure(data) ==
    (IF "cases" \notin data.keys THEN <<"Missing 'cases' field in metadata">>
     ELSE IF "cases_not_list" \in data.defects THEN <<"'cases' field must be a list">>
     ELSE <<>>)
    \o (IF "metadata" \notin data.keys THEN <<"Missing 'metadata' field in metadata">>
        ELSE IF "metadata_not_dict" \in data.defects
        THEN <<"'metadata' field must be a dictionary">>
        ELSE IF "meta_fields_missing" \in data.defects
        THEN <<"Missing metadata fields">>
        ELSE <<>>)

\* A load that coerces what it cannot read into the empty list
load_case_metadata_coercing(mf) ==
    IF mf.kind = "absent"
    THEN [exc |-> "none", cases |-> <<>>, file |-> initialize_metadata_file(LaterTime)]
    ELSE IF mf.kind = "badjson" \/ validate_metadata_structure(mf) # <<>>
    THEN [exc |-> "none", cases |-> <<>>, file |-> mf]
    ELSE [exc |-> "none", cases |-> mf.cases, file |-> mf]

\* CaseRepository.load_case_metadata: exc is the exception raised ("none"
\* when it returns), cases the list returned, file the metadata file
\* afterwards (the absent file is initialized).
load_case_metadata(mf) ==
    IF mf.kind = "absent"
    THEN [exc |-> "none", cases |-> <<>>, file |-> initialize_metadata_file(LaterTime)]
    ELSE IF mf.kind = "badjson"
    THEN [exc |-> "ValueError", cases |-> <<>>, file |-> mf]
    ELSE IF validate_metadata_structure(mf) # <<>>
    THEN [exc |-> "ValueError", cases |-> <<>>, file |-> mf]
    ELSE IF \E i \in 1..Len(mf.cases) : validate_case_metadata(mf.cases[i]) # <<>>
    THEN [exc |-> "ValueError", cases |-> <<>>, file |-> mf]
    ELSE [exc |-> "none", cases |-> mf.cases, file |-> mf]

\* A creation time taken from the clock whatever the file holds
get_creation_time_now(mf) == LaterTime

\* CaseRepository._get_creation_time
get_creation_time(mf) ==
    IF mf.kind = "json" /\ "metadata" \in mf.keys THEN mf.created_at ELSE LaterTime

\* CaseRepository._save_metadata: rewrites the whole file.  fault names the
\* write that fails in this call, if any: open() failing leaves the file as
\* it was, a failure after open(..., 'w') leaves it truncated.
save_metadata(mf, data, fault) ==
    IF fault = "meta_open"
    THEN [exc |-> "OSError", msg |-> "metadata write", file |-> mf]
    ELSE IF fault = "meta_write"
    THEN [exc |-> "OSError", msg |-> "metadata write", file |-> BadJsonMeta]
    ELSE [exc |-> "none", msg |-> "", file |-> data]

\* CaseRepository.save_case_metadata: validates every record, checks the
\* capacity, builds the envelope and writes the file.
save_case_metadata(mf, cases_metadata, fault) ==
    IF \E i \in 1..Len(cases_metadata) : validate_case_metadata(cases_metadata[i]) # <<>>
    THEN [exc |-> "ValueError", msg |-> "invalid", file |-> mf]
    ELSE IF Len(cases_metadata) > MAX_REPOSITORY_SIZE
    THEN [exc |-> "ValueError", msg |-> "capacity", file |-> mf]
    ELSE save_metadata(mf,
                       MetaDoc(cases_metadata, get_creation_time(mf), LaterTime,
                               Len(cases_metadata)),
                       fault)

(***************************************************************************)
(* The vector file.  kind is "absent" (no file), "corrupt" (a file that    *)
(* pickle.load rejects, such as one truncated by an interrupted write) or  *)
(* "array": a matrix with the given rows, each of cols numbers.            *)
(***************************************************************************)
Matrix(rows, cols) == [kind |-> "array", rows |-> rows, cols |-> cols]
AbsentVectors == [kind |-> "absent", rows |-> <<>>, cols |-> 0]
CorruptVectors == [kind |-> "corrupt", rows |-> <<>>, cols |-> 0]

\* None, as load_case_vectors returns it
NoArray == [kind |-> "None", rows |-> <<>>, cols |-> 0]

\* A load that finds no vectors whatever the file holds
load_case_vectors_none(vf) == NoArray

\* CaseRepository.load_case_vectors: the array, or None when the file is
\* missing or cannot be unpickled.
load_case_vectors(vf) == IF vf.kind = "array" THEN vf ELSE NoArray

\* CaseRepository.save_case_vectors
save_case_vectors(vf, vectors, fault) ==
    IF fault = "vec_open"
    THEN [exc |-> "OSError", msg |-> "vector write", file |-> vf]
    ELSE IF fault = "vec_write"
    THEN [exc |-> "OSError", msg |-> "vector write", file |-> CorruptVectors]
    ELSE [exc |-> "none", msg |-> "", file |-> vectors]

\* vector.reshape(1, -1) of a one-dimensional vector
reshape_row(vector) == Matrix(<<vector>>, Len(vector))

\* np.vstack([existing, row]) succeeds only when the column counts agree
vstack_ok(existing, vector) == existing.cols = Len(vector)
vstack(existing, vector) == Matrix(Append(existing.rows, vector), existing.cols)

\* np.delete that drops the last row whatever the index
np_delete_last(existing, index) ==
    Matrix(SubSeq(existing.rows, 1, Len(existing.rows) - 1), existing.cols)

\* np.delete(existing, index, axis=0) with a 0-based index
np_delete(existing, index) ==
    Matrix([i \in 1..(Len(existing.rows) - 1) |->
               IF i <= index THEN existing.rows[i] ELSE existing.rows[i + 1]],
           existing.cols)

\* list.pop(index) with a 0-based index
list_pop(list, index) ==
    [i \in 1..(Len(list) - 1) |-> IF i <= index THEN list[i] ELSE list[i + 1]]

\* A search that finds nothing
find_case_never(cases_metadata, case_id) == -1

\* The 0-based index of the first record whose case_id is the given string,
\* -1 if there is none (the search loops of remove_case, update_case_metadata
\* and add_case).
find_case(cases_metadata, case_id) ==
    LET hits == {i \in 1..Len(cases_metadata) :
                    cases_metadata[i]["case_id"] = PyStr(case_id)}
    IN IF hits = {} THEN -1
       ELSE (CHOOSE i \in hits : \A j \in hits : i <= j) - 1

(***************************************************************************)
(* The outcome of a call: the two files afterwards, the exception raised   *)
(* ("none" when the call returns) with the kind of its message, and the    *)
(* value returned.                                                         *)
(***************************************************************************)
Outcome(meta, vecs, exc, msg, ret) ==
    [meta |-> meta, vecs |-> vecs, exc |-> exc, msg |-> msg, ret |-> ret]

\* CaseRepository.add_case up to the append (lines 287-313): the load, the
\* capacity, duplicate and validation checks, and the list to be saved.
add_case_check(mf, case_document) ==
    LET ld == load_case_metadata(mf)
        cases_metadata == ld.cases
        case_dict == dict_update(to_dict(case_document),
                                 [k \in {"vector_index"} |-> PyInt(Len(cases_metadata))])
    IN IF ld.exc # "none"
       THEN [exc |-> ld.exc, msg |-> "load", file |-> ld.file, cases_metadata |-> <<>>]
       ELSE IF Len(cases_metadata) >= MAX_REPOSITORY_SIZE
       THEN [exc |-> "ValueError", msg |-> "capacity", file |-> ld.file,
             cases_metadata |-> <<>>]
       ELSE IF find_case(cases_metadata, case_document.case_id) # -1
       THEN [exc |-> "ValueError", msg |-> "duplicate", file |-> ld.file,
             cases_metadata |-> <<>>]
       ELSE IF validate_case_metadata(case_dict) # <<>>
       THEN [exc |-> "ValueError", msg |-> "invalid", file |-> ld.file,
             cases_metadata |-> <<>>]
       ELSE [exc |-> "none", msg |-> "", file |-> ld.file,
             cases_metadata |-> Append(cases_metadata, case_dict)]

\* CaseRepository.add_case, lines 320-323: the new vector array
add_case_vectors(existing_vectors, vector) ==
    IF existing_vectors.kind # "None"
    THEN IF vstack_ok(existing_vectors, vector)
         THEN [exc |-> "none", msg |-> "", vectors |-> vstack(existing_vectors, vector)]
         ELSE [exc |-> "ValueError", msg |-> "vstack", vectors |-> existing_vectors]
    ELSE [exc |-> "none", msg |-> "", vectors |-> reshape_row(vector)]

\* add_case without its capacity check, writing the file with _save_metadata
\* directly
add_case_unguarded(mf, vf, case_document, vector, fault) ==
    LET ld == load_case_metadata(mf)
        case_dict == dict_update(to_dict(case_document),
                                 [k \in {"vector_index"} |-> PyInt(Len(ld.cases))])
        sv == save_metadata(ld.file,
                            MetaDoc(Append(ld.cases, case_dict),
                                    get_creation_time(ld.file), LaterTime,
                                    Len(ld.cases) + 1),
                            fault)
        nv == add_case_vectors(load_case_vectors(vf), vector)
        wr == save_case_vectors(vf, nv.vectors, fault)
    IN IF ld.exc # "none" THEN Outcome(ld.file, vf, ld.exc, "load", "none")
       ELSE IF find_case(ld.cases, case_document.case_id) # -1
       THEN Outcome(ld.file, vf, "ValueError", "duplicate", "none")
       ELSE IF validate_case_metadata(case_dict) # <<>>
       THEN Outcome(ld.file, vf, "ValueError", "invalid", "none")
       ELSE IF sv.exc # "none" THEN Outcome(sv.file, vf, sv.exc, sv.msg, "none")
       ELSE IF nv.exc # "none" THEN Outcome(sv.file, vf, nv.exc, nv.msg, "none")
       ELSE Outcome(sv.file, wr.file, wr.exc, wr.msg, "none")

\* CaseRepository.add_case
add_case(mf, vf, case_document, vector, fault) ==
    LET ck == add_case_check(mf, case_document)
        sv == save_case_metadata(ck.file, ck.cases_metadata, fault)
        nv == add_case_vectors(load_case_vectors(vf), vector)
        wr == save_case_vectors(vf, nv.vectors, fault)
    IN IF ck.exc # "none" THEN Outcome(ck.file, vf, ck.exc, ck.msg, "none")
       ELSE IF sv.exc # "none" THEN Outcome(sv.file, vf, sv.exc, sv.msg, "none")
       ELSE IF nv.exc # "none" THEN Outcome(sv.file, vf, nv.exc, nv.msg, "none")
       ELSE Outcome(sv.file, wr.file, wr.exc, wr.msg, "none")

\* The renumbering loop of remove_case: case['vector_index'] = i
renumber(cases_metadata) ==
    [i \in 1..Len(cases_metadata) |->
        dict_update(cases_metadata[i], [k \in {"vector_index"} |-> PyInt(i - 1)])]

\* CaseRepository.remove_case up to the renumbering (lines 395-414): the
\* load, the search, and the list to be saved.
remove_case_check(mf, case_id) ==
    LET ld == load_case_metadata(mf)
        remove_index == find_case(ld.cases, case_id)
    IN IF ld.exc # "none"
       THEN [exc |-> ld.exc, msg |-> "load", ret |-> "none", file |-> ld.file,
             remove_index |-> -1, cases_metadata |-> <<>>]
       ELSE IF remove_index = -1
       THEN [exc |-> "none", msg |-> "", ret |-> "False", file |-> ld.file,
             remove_index |-> -1, cases_metadata |-> <<>>]
       ELSE [exc |-> "none", msg |-> "", ret |-> "True", file |-> ld.file,
             remove_index |-> remove_index,
             cases_metadata |-> renumber(list_pop(ld.cases, remove_index))]

\* CaseRepository.remove_case, lines 420-424: the vector file afterwards
remove_case_vectors(vf, remove_index, fault) ==
    LET existing_vectors == load_case_vectors(vf)
    IN IF existing_vectors.kind # "None" /\ remove_index < Len(existing_vectors.rows)
       THEN save_case_vectors(vf, np_delete(existing_vectors, remove_index), fault)
       ELSE [exc |-> "none", msg |-> "", file |-> vf]

\* CaseRepository.remove_case
remove_case(mf, vf, case_id, fault) ==
    LET ck == remove_case_check(mf, case_id)
        sv == save_case_metadata(ck.file, ck.cases_metadata, fault)
        wr == remove_case_vectors(vf, ck.remove_index, fault)
    IN IF ck.exc # "none" \/ ck.ret = "False"
       THEN Outcome(ck.file, vf, ck.exc, ck.msg, ck.ret)
       ELSE IF sv.exc # "none" THEN Outcome(sv.file, vf, sv.exc, sv.msg, "none")
       ELSE Outcome(sv.file, wr.file, wr.exc, wr.msg,
                    IF wr.exc = "none" THEN "True" ELSE "none")

\* CaseRepository.update_case_metadata
update_case_metadata(mf, vf, case_id, updates, fault) ==
    LET ld == load_case_metadata(mf)
        case_index == find_case(ld.cases, case_id)
        updated_case == dict_update(ld.cases[case_index + 1], updates)
        cases_metadata == [ld.cases EXCEPT ![case_index + 1] = updated_case]
        sv == save_case_metadata(ld.file, cases_metadata, fault)
    IN IF ld.exc # "none"
       THEN Outcome(ld.file, vf, ld.exc, "load", "none")
       ELSE IF case_index = -1
       THEN Outcome(ld.file, vf, "none", "", "False")
       ELSE IF validate_case_metadata(updated_case) # <<>>
       THEN Outcome(ld.file, vf, "ValueError", "invalid", "none")
       ELSE Outcome(sv.file, vf, sv.exc, sv.msg,
                    IF sv.exc = "none" THEN "True" ELSE "none")

(***************************************************************************)
(* CaseRepository.validate_repository: the report it returns.              *)
(***************************************************************************)
\* A read of the metadata file that goes through load_case_metadata, which
\* creates the file when it is absent
open_metadata_initializing(mf) == load_case_metadata(mf).file

\* validate_repository, lines 445-447: open(self.metadata_file, 'r') and
\* json.load; the metadata file afterwards.  The file is opened for reading
\* and a missing file is reported, not created.
open_metadata(mf) == mf

Report(metadata_count, vector_count, consistent, issues, schema_valid, capacity_ok) ==
    [metadata_count |-> metadata_count, vector_count |-> vector_count,
     consistent |-> consistent, issues |-> issues,
     schema_valid |-> schema_valid, capacity_ok |-> capacity_ok]

\* One "Case i error" issue for each validation error of each record
RECURSIVE case_error_issues(_, _)
case_error_issues(cases_metadata, i) ==
    IF i > Len(cases_metadata) THEN <<>>
    ELSE [j \in 1..Len(validate_case_metadata(cases_metadata[i])) |-> "Case error"]
         \o case_error_issues(cases_metadata, i + 1)

\* case.get('vector_index', -1) != i, for the record at 0-based position i
vector_index_differs(case, i) ==
    IF "vector_index" \in DOMAIN case
    THEN case["vector_index"].t # "int" \/ case["vector_index"].n # i
    ELSE -1 # i

\* One "Incorrect vector index" issue for each record whose vector_index is
\* not its position
RECURSIVE vector_index_issues(_, _)
vector_index_issues(cases_metadata, i) ==
    IF i > Len(cases_metadata) THEN <<>>
    ELSE (IF vector_index_differs(cases_metadata[i], i - 1)
          THEN <<"Incorrect vector index">> ELSE <<>>)
         \o vector_index_issues(cases_metadata, i + 1)

validate_repository(mf, vf) ==
    IF mf.kind = "absent"
    THEN Report(0, 0, FALSE, <<"Metadata file not found">>, TRUE, TRUE)
    ELSE IF mf.kind = "badjson"
    THEN Report(0, 0, FALSE, <<"Invalid JSON in metadata file">>, FALSE, TRUE)
    ELSE IF validate_metadata_structure(mf) # <<>>
    THEN Report(0, 0, FALSE,
                [j \in 1..Len(validate_metadata_structure(mf)) |-> "Schema error"],
                FALSE, TRUE)
    ELSE
    LET cases_metadata == mf.cases
        n == Len(cases_metadata)
        i_cases == case_error_issues(cases_metadata, 1)
        over == n > MAX_REPOSITORY_SIZE
        i_capacity == IF over THEN <<"Repository capacity exceeded">> ELSE <<>>
        vectors == load_case_vectors(vf)
        vector_count == IF vectors.kind # "None" THEN Len(vectors.rows) ELSE 0
        mismatch == vectors.kind # "None" /\ n # Len(vectors.rows)
        i_count == IF mismatch THEN <<"Metadata count doesn't match vector count">>
                   ELSE <<>>
        \* case['case_id'] raises KeyError for a record without the key
        key_error == \E i \in 1..n : "case_id" \notin DOMAIN cases_metadata[i]
        case_ids == [i \in 1..n |-> cases_metadata[i]["case_id"]]
        duplicate == Cardinality({case_ids[i] : i \in 1..n}) # n
        i_duplicate == IF duplicate
                       THEN <<"Duplicate case IDs found", "Duplicate case IDs">>
                       ELSE <<>>
        i_index == vector_index_issues(cases_metadata, 1)
        total_differs == mf.total_cases # n
        i_total == IF total_differs
                   THEN <<"Metadata total_cases doesn't match actual count">>
                   ELSE <<>>
        before == i_cases \o i_capacity \o i_count
    IN IF key_error
       THEN Report(n, vector_count, FALSE, before \o <<"Error during validation">>,
                   TRUE, ~over)
       ELSE Report(n, vector_count,
                   before = <<>> /\ ~duplicate /\ i_index = <<>> /\ ~total_differs,
                   before \o i_duplicate \o i_index \o i_total, TRUE, ~over)

(***************************************************************************)
(* Numbers of the similarity search.  Vectors have integer components.  A  *)
(* similarity s, a real in [-1, 1], is held exactly as the rational        *)
(* sign(s) * s^2 = num / den with den > 0: the map is strictly increasing  *)
(* and fixes -1, 0 and 1, so order, ties and the range tests are those of  *)
(* s itself.                                                               *)
(***************************************************************************)
RECURSIVE dot(_, _)
dot(u, v) ==
    IF Len(u) = 0 THEN 0 ELSE Head(u) * Head(v) + dot(Tail(u), Tail(v))

Sim(num, den) == [num |-> num, den |-> den]
sim_lt(a, b) == a.num * b.den < b.num * a.den
sim_eq(a, b) == a.num * b.den = b.num * a.den
sim_le(a, b) == a.num * b.den <= b.num * a.den

\* sklearn cosine_similarity of two vectors: both are normalized, a vector
\* of norm zero being left as it is, and the dot product is taken
cosine_similarity(u, v) ==
    LET d == dot(u, v)
        n == dot(u, u) * dot(v, v)
    IN IF n = 0 THEN Sim(0, 1)
       ELSE Sim((IF d < 0 THEN -1 ELSE 1) * d * d, n)

\* np.argsort(similarities): the orders of the positions 1..n in which the
\* values ascend.  The default sort kind is not stable, so positions with
\* equal values may come in any order.
argsort(similarities) ==
    LET n == Len(similarities)
    IN { p \in [1..n -> 1..n] :
           /\ \A i, j \in 1..n : i # j => p[i] # p[j]
           /\ \A i \in 1..(n - 1) :
                 sim_le(similarities[p[i]], similarities[p[i + 1]]) }

\* The order as sorted, not reversed
not_reversed(seq) == seq

\* seq[::-1]
reversed(seq) == [i \in 1..Len(seq) |-> seq[Len(seq) + 1 - i]]

\* seq[:k]: the first k elements, all of them when there are fewer, and for
\* a negative k all but the last -k
slice_to(seq, k) ==
    LET stop == IF k >= 0 THEN (IF k < Len(seq) THEN k ELSE Len(seq))
                ELSE (IF Len(seq) + k > 0 THEN Len(seq) + k ELSE 0)
    IN SubSeq(seq, 1, stop)

(***************************************************************************)
(* SearchResult.__post_init__                                              *)
(***************************************************************************)
\* No clamping
not_clamped(similarity_score) == similarity_score

\* max(0.0, min(1.0, similarity_score))
clamped(similarity_score) ==
    LET upper == IF sim_lt(Sim(1, 1), similarity_score) THEN Sim(1, 1)
                 ELSE similarity_score
    IN IF sim_lt(Sim(0, 1), upper) THEN upper ELSE Sim(0, 1)

\* The SearchResult constructed for a case with a raw score: exc is the
\* exception __post_init__ raises, "none" when the object is constructed
SearchResult(case_id, similarity_score) ==
    LET score == clamped(similarity_score)
    IN IF ~(sim_le(Sim(0, 1), score) /\ sim_le(score, Sim(1, 1)))
       THEN [exc |-> "ValueError", case_id |-> case_id, similarity_score |-> score]
       ELSE [exc |-> "none", case_id |-> case_id, similarity_score |-> score]

(***************************************************************************)
(* SimilaritySearchEngine                                                  *)
(***************************************************************************)
\* The state before any engine is constructed
NoEngine == [built |-> FALSE, case_vectors |-> Matrix(<<>>, 0), case_metadata |-> <<>>]

\* __init__ without the comparison of the counts
init_engine_unchecked(case_vectors, case_metadata) ==
    [exc |-> "none",
     engine |-> [built |-> TRUE, case_vectors |-> case_vectors,
                 case_metadata |-> case_metadata]]

\* SimilaritySearchEngine.__init__: raises when the number of rows is not
\* the number of metadata entries, and then no engine is constructed
init_engine(case_vectors, case_metadata) ==
    IF Len(case_vectors.rows) # Len(case_metadata)
    THEN [exc |-> "ValueError", engine |-> NoEngine]
    ELSE [exc |-> "none",
          engine |-> [built |-> TRUE, case_vectors |-> case_vectors,
                      case_metadata |-> case_metadata]]

\* What a search call gives: the exception raised ("none" when it
\* returns), top_k_indices (positions counted from 1) and the results
SearchOutcome(exc, msg, top_k_indices, results) ==
    [exc |-> exc, msg |-> msg, top_k_indices |-> top_k_indices, results |-> results]

\* search, line 57: cosine_similarity(query_vector, self.case_vectors)[0]
similarities_of(engine, query_vector) ==
    [i \in 1..Len(engine.case_vectors.rows) |->
        cosine_similarity(query_vector, engine.case_vectors.rows[i])]

\* SimilaritySearchEngine.search with the outcome order of np.argsort; the
\* metadata entries are the records the repository stores, which have the
\* keys the results are built from
search(engine, query_vector, k, order) ==
    LET similarities == similarities_of(engine, query_vector)
        top_k_indices == slice_to(reversed(order), k)
        results == [i \in 1..Len(top_k_indices) |->
                       SearchResult(engine.case_metadata[top_k_indices[i]]["case_id"].s,
                                    similarities[top_k_indices[i]])]
    IN IF Len(query_vector) # engine.case_vectors.cols
       THEN SearchOutcome("ValueError", "dimension", <<>>, <<>>)
       ELSE IF Len(engine.case_vectors.rows) = 0
       THEN SearchOutcome("ValueError", "no samples", <<>>, <<>>)
       ELSE IF \E i \in 1..Len(results) : results[i].exc # "none"
       THEN SearchOutcome("ValueError", "score", <<>>, <<>>)
       ELSE SearchOutcome("none", "", top_k_indices, results)

(***************************************************************************)
(* The vocabulary and the vectorizer.  A document is the sequence of its   *)
(* tokens.  A TF-IDF weight is held by what determines it: <<tf, df, n>>   *)
(* stands for (1 + ln tf) * (ln((1 + n) / (1 + df)) + 1), which is         *)
(* positive, and ZeroWeight for 0.0; a row is held before its              *)
(* normalisation to unit length, which keeps the zero entries zero.        *)
(***************************************************************************)
\* term in self._terms
has_term(terms, term) == \E i \in 1..Len(terms) : terms[i] = term

\* LegalVocabulary.add_term: appended unless present
add_term(terms, term) == IF has_term(terms, term) THEN terms ELSE Append(terms, term)

\* list.remove: the first occurrence is taken out
list_remove(list, x) ==
    LET at == CHOOSE i \in 1..Len(list) : list[i] = x /\ \A j \in 1..(i - 1) : list[j] # x
    IN  [i \in 1..(Len(list) - 1) |-> IF i < at THEN list[i] ELSE list[i + 1]]

\* LegalVocabulary.remove_term (True when the term was there)
remove_term(terms, term) ==
    IF has_term(terms, term)
    THEN [terms |-> list_remove(terms, term), ret |-> TRUE]
    ELSE [terms |-> terms, ret |-> FALSE]

\* The number of occurrences of a term among the tokens of a document
term_count(doc, term) == Cardinality({i \in 1..Len(doc) : doc[i] = term})

ZeroWeight == <<0, 0, 0>>

\* The weight of a term occurring tf times in the document, given the
\* statistics of the fit
tfidf_weight(tf, df, n) == IF tf = 0 THEN ZeroWeight ELSE <<tf, df, n>>

\* TfidfVectorizer(vocabulary={term: idx ...}): the vocabulary is fixed
\* here; a term listed twice keeps its last index only, and fit then
\* rejects the vocabulary for the index it lacks
TfidfVectorizer(terms) ==
    [vocabulary |-> terms,
     indices_ok |-> \A i, j \in 1..Len(terms) : terms[i] = terms[j] => i = j,
     fitted |-> FALSE, n |-> 0, df |-> <<>>]

\* TfidfVectorizer.fit with a fixed vocabulary: the document frequency of
\* each term of the vocabulary over the documents
sk_fit(vectorizer, documents) ==
    [vectorizer EXCEPT
        !.fitted = TRUE,
        !.n = Len(documents),
        !.df = [i \in 1..Len(vectorizer.vocabulary) |->
                  Cardinality({d \in 1..Len(documents) :
                                 term_count(documents[d], vectorizer.vocabulary[i]) > 0})]]

\* One row of TfidfVectorizer.transform(...).toarray(): one entry for each
\* index of the vectorizer's vocabulary
sk_transform(vectorizer, doc) ==
    [i \in 1..Len(vectorizer.vocabulary) |->
        tfidf_weight(term_count(doc, vectorizer.vocabulary[i]),
                     vectorizer.df[i], vectorizer.n)]

\* LegalVectorizer(vocabulary)
LegalVectorizer(terms) ==
    [built |-> TRUE, vocabulary |-> terms, vectorizer |-> TfidfVectorizer(terms),
     is_fitted |-> FALSE, feature_names |-> <<>>]

\* vectorizer.vocabulary_size
vocabulary_size(self) == Len(self.vocabulary)

\* The model file: absent, not a pickle, or the dict save_model dumps
AbsentModel ==
    [kind |-> "absent", vectorizer |-> TfidfVectorizer(<<>>), vocabulary_size |-> 0,
     feature_names |-> <<>>, is_fitted |-> FALSE]

CorruptModel == [AbsentModel EXCEPT !.kind = "corrupt"]

ModelData(vectorizer, size, feature_names, is_fitted) ==
    [kind |-> "model", vectorizer |-> vectorizer, vocabulary_size |-> size,
     feature_names |-> feature_names, is_fitted |-> is_fitted]

\* What a call on the vectorizer gives: the exception or the return value,
\* the vectorizer and the model file afterwards
VzOutcome(exc, ret, self, file) == [exc |-> exc, ret |-> ret, self |-> self, file |-> file]

\* LegalVectorizer.fit
fit(self, file, documents) ==
    IF documents = <<>> \/ ~self.vectorizer.indices_ok
    THEN VzOutcome("ValueError", <<>>, self, file)
    ELSE LET fitted == sk_fit(self.vectorizer, documents)
         IN  VzOutcome("none", <<>>,
                       [self EXCEPT !.vectorizer = fitted, !.is_fitted = TRUE,
                                    !.feature_names = fitted.vocabulary],
                       file)

\* The guard each method of the vectorizer starts with
is_fitted_always(self) == TRUE

is_fitted(self) == self.is_fitted

\* LegalVectorizer.transform of one document: a matrix of one row
transform(self, file, doc) ==
    IF ~is_fitted(self) \/ ~self.vectorizer.fitted
    THEN VzOutcome("NotFittedError", <<>>, self, file)
    ELSE VzOutcome("none", <<sk_transform(self.vectorizer, doc)>>, self, file)

\* LegalVectorizer.get_feature_names
get_feature_names(self, file) ==
    IF ~is_fitted(self)
    THEN VzOutcome("NotFittedError", <<>>, self, file)
    ELSE VzOutcome("none", self.feature_names, self, file)

\* LegalVectorizer.get_vector_dimension
get_vector_dimension(self, file) ==
    IF ~is_fitted(self)
    THEN VzOutcome("NotFittedError", <<>>, self, file)
    ELSE VzOutcome("none", <<Len(self.feature_names)>>, self, file)

\* LegalVectorizer.save_model
save_model(self, file) ==
    IF ~is_fitted(self)
    THEN VzOutcome("NotFittedError", <<>>, self, file)
    ELSE VzOutcome("none", <<>>, self,
                   ModelData(self.vectorizer, Len(self.vocabulary),
                             self.feature_names, self.is_fitted))

\* A load_model that takes the flag of the file and leaves the vectorizer
load_model_flag_only(self, file) ==
    CASE file.kind = "absent" -> VzOutcome("FileNotFoundError", <<>>, self, file)
      [] file.kind = "corrupt" -> VzOutcome("PickleError", <<>>, self, file)
      [] OTHER ->
           VzOutcome("none", <<>>, [self EXCEPT !.is_fitted = file.is_fitted], file)

\* LegalVectorizer.load_model: the vectorizer, the feature names and the
\* flag of the file replace those of self; self.vocabulary is not assigned
load_model(self, file) ==
    CASE file.kind = "absent" -> VzOutcome("FileNotFoundError", <<>>, self, file)
      [] file.kind = "corrupt" -> VzOutcome("PickleError", <<>>, self, file)
      [] OTHER ->
           VzOutcome("none", <<>>,
                     [self EXCEPT !.vectorizer = file.vectorizer,
                                  !.feature_names = file.feature_names,
                                  !.is_fitted = file.is_fitted],
                     file)

\* LegalVectorizer.get_top_features with the default n_features, which is
\* above the number of features here: the (feature name, weight) pairs of
\* the positive entries of the row, all of them kept by the cut (the list
\* is held as the set of its pairs)
get_top_features(self, file, doc) ==
    IF ~is_fitted(self)
    THEN VzOutcome("NotFittedError", <<>>, self, file)
    ELSE LET t == transform(self, file, doc)
         IN  IF t.exc # "none" THEN t
             ELSE VzOutcome("none",
                            << { <<self.feature_names[i], t.ret[1][i]>> :
                                   i \in {j \in 1..Len(t.ret[1]) : t.ret[1][j] # ZeroWeight} } >>,
                            self, file)

\* LegalVectorizer.calculate_similarity: 0.0 when one of the rows has norm
\* zero; the cosine of two rows of non-negative entries is otherwise zero
\* exactly when no entry is positive in both
calculate_similarity(self, file, doc1, doc2) ==
    IF ~is_fitted(self)
    THEN VzOutcome("NotFittedError", <<>>, self, file)
    ELSE LET t1 == transform(self, file, doc1)
             t2 == transform(self, file, doc2)
         IN  IF t1.exc # "none" THEN t1
             ELSE VzOutcome("none",
                            IF \E i \in 1..Len(t1.ret[1]) :
                                  t1.ret[1][i] # ZeroWeight /\ t2.ret[1][i] # ZeroWeight
                            THEN <<"positive">> ELSE <<"0.0">>,
                            self, file)

(***************************************************************************)
(* The vocabulary with its categories and weights.  categories maps each   *)
(* category name to the list of its terms; weights is held by the set of   *)
(* the terms that have one.                                                *)
(***************************************************************************)
LegalVocabulary(terms, categories, weights) ==
    [built |-> TRUE, terms |-> terms, categories |-> categories, weights |-> weights]

\* The vocabulary file: absent, not JSON, or the JSON object
AbsentVocabulary ==
    [kind |-> "absent", terms |-> <<>>, categories |-> <<>>, weights |-> {}]

BadJsonVocabulary == [AbsentVocabulary EXCEPT !.kind = "badjson"]

VocabularyData(terms, categories, weights) ==
    [kind |-> "json", terms |-> terms, categories |-> categories, weights |-> weights]

\* len(self._terms) within the range a vocabulary must have
size_in_range(terms) == MinVocabularyTerms <= Len(terms) /\ Len(terms) <= MaxVocabularyTerms

\* LegalVocabulary(path), which runs load_vocabulary: the terms, categories
\* and weights of the file are taken as they are and the number of terms is
\* checked; raising json.JSONDecodeError with the message alone raises
\* TypeError
load_vocabulary(file) ==
    CASE file.kind = "absent" ->
           [exc |-> "FileNotFoundError", self |-> [LegalVocabulary(<<>>, <<>>, {}) EXCEPT !.built = FALSE]]
      [] file.kind = "badjson" ->
           [exc |-> "TypeError", self |-> [LegalVocabulary(<<>>, <<>>, {}) EXCEPT !.built = FALSE]]
      [] OTHER ->
           IF size_in_range(file.terms)
           THEN [exc |-> "none",
                 self |-> LegalVocabulary(file.terms, file.categories, file.weights)]
           ELSE [exc |-> "ValueError",
                 self |-> [LegalVocabulary(<<>>, <<>>, {}) EXCEPT !.built = FALSE]]

\* LegalVocabulary.add_term(term, category, weight); category is "" and
\* weight FALSE when not given
add_term_to(self, term, category, weight) ==
    [self EXCEPT
        !.terms = add_term(@, term),
        !.categories = [c \in DOMAIN @ |->
                          IF c = category /\ category # "" /\ ~has_term(@[c], term)
                          THEN Append(@[c], term) ELSE @[c]],
        !.weights = IF weight THEN @ \cup {term} ELSE @]

\* LegalVocabulary.remove_term(term)
remove_term_from(self, term) ==
    IF has_term(self.terms, term)
    THEN [ret |-> TRUE,
          self |-> [self EXCEPT
                      !.terms = list_remove(@, term),
                      !.categories = [c \in DOMAIN @ |->
                                        IF has_term(@[c], term)
                                        THEN list_remove(@[c], term) ELSE @[c]],
                      !.weights = @ \ {term}]]
    ELSE [ret |-> FALSE, self |-> self]

(***************************************************************************)
(* The performance monitor.  An operation is named by its operation_id;    *)
(* metrics_history holds, for each block left, its id and whether it       *)
(* succeeded.  The statements under self.lock are one step.                *)
(***************************************************************************)
\* PerformanceMonitor()
PerformanceMonitor ==
    [active_operations |-> {}, active_requests |-> 0, max_concurrent_requests |-> 0,
     total_requests |-> 0, metrics_history |-> <<>>]

\* track_operation up to its yield: the block is entered
enter_block(self, operation_id) ==
    [self EXCEPT
        !.active_operations = @ \cup {operation_id},
        !.active_requests = @ + 1,
        !.total_requests = @ + 1,
        !.max_concurrent_requests =
            IF self.active_requests + 1 > @ THEN self.active_requests + 1 ELSE @]

\* A finally clause that a raising block skips
leave_block_on_success(self, operation_id, success) ==
    IF success
    THEN [self EXCEPT
            !.active_requests = @ - 1,
            !.active_operations = @ \ {operation_id},
            !.metrics_history = Append(@, <<operation_id, success>>)]
    ELSE self

\* track_operation from its yield on: the finally clause runs whether the
\* block succeeded or raised
leave_block(self, operation_id, success) ==
    [self EXCEPT
        !.active_requests = @ - 1,
        !.active_operations = @ \ {operation_id},
        !.metrics_history = Append(@, <<operation_id, success>>)]

\* PerformanceMonitor.reset_stats
reset_stats(self) ==
    [self EXCEPT
        !.metrics_history = <<>>,
        !.active_operations = {},
        !.active_requests = 0,
        !.max_concurrent_requests = 0,
        !.total_requests = 0]

(***************************************************************************)
(* The text preprocessor.  A string is the sequence of its characters.     *)
(* self holds what __init__ leaves: enable_lemmatization, whether the      *)
(* NLTK stopwords loaded (stopwords_ok; when not, the built-in list is     *)
(* used and there is no lemmatizer), and whether the tokenizer data        *)
(* (punkt) and the lemmatizer data (wordnet) are installed.                *)
(***************************************************************************)
TextPreprocessor(enable_lemmatization, stopwords_ok, punkt, wordnet) ==
    [enable_lemmatization |-> enable_lemmatization, stopwords_ok |-> stopwords_ok,
     punkt |-> punkt, wordnet |-> wordnet]

\* The values handed to the preprocessor: a str, None, an int, a list
Str(chars) == [kind |-> "str", chars |-> chars, n |-> 0]
NoneValue == [kind |-> "None", chars |-> <<>>, n |-> 0]
IntValue(n) == [kind |-> "int", chars |-> <<>>, n |-> n]
ListValue(n) == [kind |-> "list", chars |-> <<>>, n |-> n]

\* not text: the empty str, None, 0 and the empty list are false
not_text(text) ==
    CASE text.kind = "str" -> text.chars = <<>>
      [] text.kind = "None" -> TRUE
      [] OTHER -> text.n = 0

\* not text or not isinstance(text, str)
no_text(text) == not_text(text) \/ text.kind # "str"

UpperCase == {"T", "C"}
LowerCase == {"a", "c", "e", "h", "l", "n", "o", "s", "t", "w"}
Digits == {"1"}
WhiteSpace == {" ", "\n"}

\* str.lower on one character
lower_char(c) == CASE c = "T" -> "t" [] c = "C" -> "c" [] OTHER -> c

\* str.lower
lower(s) == [i \in 1..Len(s) |-> lower_char(s[i])]

\* re.sub(r'[^\w\s]', ' ', s)
sub_punctuation(s) ==
    [i \in 1..Len(s) |->
        IF s[i] \in UpperCase \cup LowerCase \cup Digits \cup WhiteSpace
        THEN s[i] ELSE " "]

\* str.split(): the maximal runs of characters that are not white space
RECURSIVE split_from(_, _, _)
split_from(s, i, word) ==
    IF i > Len(s)
    THEN IF word = <<>> THEN <<>> ELSE <<word>>
    ELSE IF s[i] \in WhiteSpace
         THEN IF word = <<>> THEN split_from(s, i + 1, <<>>)
              ELSE <<word>> \o split_from(s, i + 1, <<>>)
         ELSE split_from(s, i + 1, Append(word, s[i]))

split(s) == split_from(s, 1, <<>>)

\* ' '.join(words)
RECURSIVE join(_)
join(words) ==
    IF words = <<>> THEN <<>>
    ELSE IF Len(words) = 1 THEN words[1]
         ELSE words[1] \o <<" ">> \o join(Tail(words))

\* re.sub(r'\s+', ' ', s).strip(): the words of s, one space between them
collapse_spaces(s) == join(split(s))

\* TextPreprocessor.normalize_text
normalize_text(self, text) ==
    IF no_text(text) THEN <<>>
    ELSE collapse_spaces(sub_punctuation(lower(text.chars)))

\* str.isalpha
isalpha(word) == word # <<>> /\ \A i \in 1..Len(word) : word[i] \in UpperCase \cup LowerCase

\* nltk.word_tokenize on normalized text: the words, with "cannot" split
\* into "can" and "not" as the tokenizer does with contractions
RECURSIVE split_contractions(_)
split_contractions(words) ==
    IF words = <<>> THEN <<>>
    ELSE (IF Head(words) = <<"c", "a", "n", "n", "o", "t">>
          THEN << <<"c", "a", "n">>, <<"n", "o", "t">> >>
          ELSE <<Head(words)>>) \o split_contractions(Tail(words))

word_tokenize(s) == split_contractions(split(s))

\* TextPreprocessor.tokenize_text: word_tokenize, or str.split when the
\* tokenizer raises for its missing data
tokenize_text(self, s) ==
    IF s = <<>> THEN <<>>
    ELSE SelectSeq(IF self.punkt THEN word_tokenize(s) ELSE split(s), isalpha)

\* The stopwords among the words here: of NLTK's list, and of the built-in
\* list used when NLTK's does not load
NltkStopwords == { <<"t", "h", "e">>, <<"c", "a", "n">>, <<"n", "o", "t">>, <<"a">> }
FallbackStopwords == { <<"t", "h", "e">>, <<"a">> }

stopwords_set(self) == IF self.stopwords_ok THEN NltkStopwords ELSE FallbackStopwords

\* TextPreprocessor.remove_stopwords
remove_stopwords(self, tokens) ==
    LET keep(token) == lower(token) \notin stopwords_set(self) /\ Len(token) > 2
    IN  SelectSeq(tokens, keep)

\* WordNetLemmatizer.lemmatize on the words here
lemmatize(word) == IF word = <<"c", "a", "t", "s">> THEN <<"c", "a", "t">> ELSE word

\* self.lemmatizer is set when the stopwords loaded and lemmatization is on
has_lemmatizer(self) == self.stopwords_ok /\ self.enable_lemmatization

\* TextPreprocessor.lemmatize_tokens: a token whose lemmatization raises
\* (the data missing) is kept in lower case
lemmatize_tokens(self, tokens) ==
    IF tokens = <<>> \/ ~self.enable_lemmatization \/ ~has_lemmatizer(self)
    THEN tokens
    ELSE [i \in 1..Len(tokens) |->
            IF self.wordnet THEN lemmatize(lower(tokens[i])) ELSE lower(tokens[i])]

\* TextPreprocessor.preprocess
preprocess(self, text) ==
    IF no_text(text) THEN <<>>
    ELSE LET normalized_text == normalize_text(self, text)
             tokens == tokenize_text(self, normalized_text)
             filtered_tokens == remove_stopwords(self, tokens)
             processed_tokens ==
                 IF self.enable_lemmatization
                 THEN lemmatize_tokens(self, filtered_tokens)
                 ELSE [i \in 1..Len(filtered_tokens) |-> lower(filtered_tokens[i])]
         IN  IF normalized_text = <<>> \/ tokens = <<>> THEN <<>>
             ELSE join(processed_tokens)

\* The preprocessor after a call that switches lemmatization off
after_call_disabling(self) == [self EXCEPT !.enable_lemmatization = FALSE]

\* The preprocessor after a call of one of its methods: none assigns to self
after_call(self) == self

(***************************************************************************)
(* Inputs of the calls.                                                    *)
(***************************************************************************)
CaseIds == {"A", "B", "C"}

Doc(case_id, title) == [case_id |-> case_id, title |-> title, file_path |-> "a.pdf"]

\* The (document, vector) pairs handed to add_case: a well-formed document
\* for each id, each with a vector of its own, a document with an empty
\* title and one with a blank id.
AddInputs ==
    { <<Doc("A", "T"), <<1, 0>>>>, <<Doc("B", "T"), <<0, 1>>>>,
      <<Doc("C", "T"), <<1, 1>>>>,
      <<Doc("C", ""), <<1, 1>>>>, <<Doc(" ", "T"), <<1, 1>>>> }

\* A well-formed document with a vector of another dimensionality
OtherDimInputs == { <<Doc("C", "T"), <<1>>>> }

\* The updates maps handed to update_case_metadata
Updates ==
    { [k \in {"title"} |-> PyStr("")],
      [k \in {"case_id"} |-> PyStr("B")],
      [k \in {"vector_index"} |-> PyInt(0)] }

\* The write that fails during a call
Faults == {"none", "meta_open", "meta_write", "vec_open", "vec_write"}

(***************************************************************************)
(* State: the two files, the last completed call with its result, and for  *)
(* the step-wise specification the call in flight and the reader; eng is   *)
(* the search engine the program holds with its last call (raw is the      *)
(* score a SearchResult was constructed with directly); vz is the          *)
(* vectorizer the program holds with its model file, the terms it was      *)
(* constructed with, and its last call; pp is the text preprocessor with   *)
(* its last call and an earlier call of preprocess; voc is the vocabulary  *)
(* with its last call; pm is the performance monitor with, for each        *)
(* thread, the blocks it has entered and not left (innermost last), the    *)
(* number of blocks entered, the largest number of blocks active at once,  *)
(* and whether reset_stats has run; cw holds the locals of the add_case    *)
(* calls that two callers make on the repository at the same time, and     *)
(* whether the two calls overlapped.                                       *)
(***************************************************************************)
VARIABLES metaFile, vecFile, last, faults, wr, rd, eng, vz, pp, voc, pm, cw

vars == <<metaFile, vecFile, last, faults, wr, rd, eng, vz, pp, voc, pm, cw>>

\* The state of the components other than the repository
otherVars == <<eng, vz, pp, voc, pm>>

\* The threads that run track_operation blocks
Threads == {"t1", "t2"}

\* The vocabulary and the call made on it last
VocCall(self, op, exc, ret) == [self |-> self, op |-> op, exc |-> exc, ret |-> ret]

\* No LegalVocabulary constructed yet
NoVocabulary == [LegalVocabulary(<<>>, <<>>, {}) EXCEPT !.built = FALSE]

\* The monitor with the blocks of each thread
Monitor(self, stacks, entered, peak, reset) ==
    [self |-> self, stacks |-> stacks, entered |-> entered, peak |-> peak,
     reset |-> reset]

\* The state of the repository
repoVars == <<metaFile, vecFile, last, faults, wr, rd, cw>>

\* No LegalVectorizer constructed yet
NoVectorizer ==
    [built |-> FALSE, vocabulary |-> <<>>, vectorizer |-> TfidfVectorizer(<<>>),
     is_fitted |-> FALSE, feature_names |-> <<>>]

\* The vectorizer, its model file, the terms it was constructed with, and
\* the call made on it last with its argument and its result; saved is
\* what transform returned for each document when the vectorizer wrote the
\* model file (empty when the file is not one it wrote)
VzCall(self, file, constructed, op, exc, ret, doc) ==
    [self |-> self, file |-> file, constructed |-> constructed,
     op |-> op, exc |-> exc, ret |-> ret, doc |-> doc, saved |-> <<>>]

\* The engine with the call made on it last
EngineCall(engine, op, exc, msg, query_vector, k, top_k_indices, results) ==
    [engine |-> engine, op |-> op, exc |-> exc, msg |-> msg,
     query_vector |-> query_vector, k |-> k,
     top_k_indices |-> top_k_indices, results |-> results, raw |-> Sim(0, 1)]

\* No call of preprocess kept
NoEarlier == [kept |-> FALSE, text |-> NoneValue, ret |-> <<>>, calls |-> 0]

\* One more call made since the call kept
one_more_call(earlier) ==
    IF earlier.kept /\ earlier.calls < MaxBetween
    THEN [earlier EXCEPT !.calls = @ + 1] ELSE earlier

\* The preprocessor (built once constructed), the method called last with
\* its argument and what it returned, and an earlier call of preprocess
PpCall(built, self, op, text, ret, earlier) ==
    [built |-> built, self |-> self, op |-> op, text |-> text, ret |-> ret,
     earlier |-> earlier]

\* The results dict validate_repository starts from
initial_results == Report(0, 0, TRUE, <<>>, TRUE, TRUE)

Last(op, exc, msg, ret, pos, report) ==
    [op |-> op, exc |-> exc, msg |-> msg, ret |-> ret, pos |-> pos, report |-> report,
     cases |-> <<>>]

IdleWriter ==
    [pc |-> "idle", op |-> "none", cases_metadata |-> <<>>, vector |-> <<>>,
     remove_index |-> -1, vectors |-> NoArray]

IdleReader == [pc |-> "idle", full_metadata |-> AbsentMeta]

\* The callers of the repository that run at the same time
Callers == {"c1", "c2"}

\* The positions of an add_case call between its first file access and
\* its return
InFlight == {"save_metadata", "load_vectors", "save_vectors"}

\* A caller that has not called add_case yet
IdleCaller ==
    [pc |-> "idle", case_id |-> "", cases_metadata |-> <<>>, vector |-> <<>>,
     vectors |-> NoArray, exc |-> "none"]

\* CaseRepository.__init__ on an empty data directory
Init ==
    /\ metaFile = initialize_metadata_file(InitTime)
    /\ vecFile = AbsentVectors
    /\ last = Last("init", "none", "", "none", -1, initial_results)
    /\ faults = 0
    /\ wr = IdleWriter
    /\ rd = IdleReader
    /\ eng = EngineCall(NoEngine, "none", "none", "", <<>>, 0, <<>>, <<>>)
    /\ vz = VzCall(NoVectorizer, AbsentModel, <<>>, "none", "none", <<>>, <<>>)
    /\ pp = PpCall(FALSE, TextPreprocessor(TRUE, TRUE, TRUE, TRUE), "none", NoneValue,
                   <<>>, NoEarlier)
    /\ voc = VocCall(NoVocabulary, "none", "none", FALSE)
    /\ pm = Monitor(PerformanceMonitor, [t \in Threads |-> <<>>], 0, 0, FALSE)
    /\ cw = [calls |-> [c \in Callers |-> IdleCaller], overlapped |-> FALSE]

(***************************************************************************)
(* The calls, each as one step.                                            *)
(***************************************************************************)
\* A write fails only within the budget, and a failure is counted when the
\* call raised the I/O error
FaultAllowed(fault) == IF fault = "none" THEN TRUE ELSE faults < MaxFaults
CountFault(o) == faults' = IF o.exc = "OSError" THEN faults + 1 ELSE faults

AddCaseCall(case_document, vector, fault) ==
    /\ FaultAllowed(fault)
    /\ \E o \in {add_case(metaFile, vecFile, case_document, vector, fault)} :
       /\ IF fault = "none" THEN TRUE ELSE o.exc = "OSError"
       /\ CountFault(o)
       /\ metaFile' = o.meta
       /\ vecFile' = o.vecs
       /\ last' = Last("add_case", o.exc, o.msg, o.ret, -1, initial_results)
       /\ UNCHANGED <<wr, rd, cw, otherVars>>

RemoveCaseCall(case_id, fault) ==
    /\ FaultAllowed(fault)
    /\ \E o \in {remove_case(metaFile, vecFile, case_id, fault)} :
       /\ IF fault = "none" THEN TRUE ELSE o.exc = "OSError"
       /\ CountFault(o)
       /\ metaFile' = o.meta
       /\ vecFile' = o.vecs
       /\ last' = Last("remove_case", o.exc, o.msg, o.ret,
                       remove_case_check(metaFile, case_id).remove_index,
                       initial_results)
       /\ UNCHANGED <<wr, rd, cw, otherVars>>

UpdateCaseMetadataCall(case_id, updates, fault) ==
    /\ FaultAllowed(fault)
    /\ \E o \in {update_case_metadata(metaFile, vecFile, case_id, updates, fault)} :
       /\ IF fault = "none" THEN TRUE ELSE o.exc = "OSError"
       /\ CountFault(o)
       /\ metaFile' = o.meta
       /\ vecFile' = o.vecs
       /\ last' = Last("update_case_metadata", o.exc, o.msg, o.ret, -1, initial_results)
       /\ UNCHANGED <<wr, rd, cw, otherVars>>

ValidateRepository ==
    /\ last' = Last("validate_repository", "none", "", "report", -1,
                    validate_repository(metaFile, vecFile))
    /\ metaFile' = open_metadata(metaFile)
    /\ UNCHANGED <<vecFile, faults, wr, rd, cw, otherVars>>

AddCase ==
    \E input \in AddInputs : AddCaseCall(input[1], input[2], "none")

RemoveCase ==
    \E case_id \in CaseIds : RemoveCaseCall(case_id, "none")

UpdateCaseMetadata ==
    \E case_id \in CaseIds, updates \in Updates :
        UpdateCaseMetadataCall(case_id, updates, "none")

Next == AddCase \/ RemoveCase \/ UpdateCaseMetadata \/ ValidateRepository

\* The calls of one process, one after the other, every write succeeding
Spec == Init /\ [][Next]_vars

(***************************************************************************)
(* The same calls with writes that fail: an I/O error, or a crash of the   *)
(* process, which leaves the files as the error does.                      *)
(***************************************************************************)
AddCaseFault ==
    \E input \in AddInputs \cup OtherDimInputs, fault \in Faults \ {"none"} :
        AddCaseCall(input[1], input[2], fault)

RemoveCaseFault ==
    \E case_id \in CaseIds, fault \in Faults \ {"none"} : RemoveCaseCall(case_id, fault)

UpdateCaseMetadataFault ==
    \E case_id \in CaseIds, updates \in Updates, fault \in Faults \ {"none"} :
        UpdateCaseMetadataCall(case_id, updates, fault)

\* add_case with a vector whose length is not that of the stored rows
AddCaseOtherDim ==
    \E input \in OtherDimInputs : AddCaseCall(input[1], input[2], "none")

NextFaults ==
    \/ AddCase \/ RemoveCase \/ UpdateCaseMetadata \/ ValidateRepository
    \/ AddCaseOtherDim \/ AddCaseFault \/ RemoveCaseFault \/ UpdateCaseMetadataFault

SpecFaults == Init /\ [][NextFaults]_vars

(***************************************************************************)
(* add_case and remove_case only, every write succeeding.                  *)
(***************************************************************************)
NextAddRemove == AddCase \/ AddCaseOtherDim \/ RemoveCase

SpecAddRemove == Init /\ [][NextAddRemove]_vars

(***************************************************************************)
(* The calls step by step: every access to a file is a step of its own, so *)
(* that a reader can run between the steps of one add_case or remove_case. *)
(* wr holds the locals of the writing call in flight, rd those of the      *)
(* validate_repository call in flight.                                     *)
(***************************************************************************)
StepInputs == { <<Doc("A", "T"), <<1, 0>>>>, <<Doc("B", "T"), <<0, 1>>>> }
StepIds == {"A", "B"}

Finish(op, exc, msg, ret) ==
    /\ last' = Last(op, exc, msg, ret, -1, initial_results)
    /\ wr' = IdleWriter

\* add_case, lines 287-313: load the metadata, check, append to the list
AddLoad ==
    /\ wr.pc = "idle"
    /\ \E input \in StepInputs :
         \E ck \in {add_case_check(metaFile, input[1])} :
            /\ metaFile' = ck.file
            /\ IF ck.exc # "none"
               THEN Finish("add_case", ck.exc, ck.msg, "none")
               ELSE /\ wr' = [IdleWriter EXCEPT !.pc = "save_metadata", !.op = "add_case",
                                               !.cases_metadata = ck.cases_metadata,
                                               !.vector = input[2]]
                    /\ UNCHANGED last
    /\ UNCHANGED <<vecFile, faults, rd, cw, otherVars>>

\* remove_case, lines 395-414: load the metadata, search, pop, renumber
RemoveLoad ==
    /\ wr.pc = "idle"
    /\ \E case_id \in StepIds :
         \E ck \in {remove_case_check(metaFile, case_id)} :
            /\ metaFile' = ck.file
            /\ IF ck.exc # "none" \/ ck.ret = "False"
               THEN Finish("remove_case", ck.exc, ck.msg, ck.ret)
               ELSE /\ wr' = [IdleWriter EXCEPT !.pc = "save_metadata", !.op = "remove_case",
                                               !.cases_metadata = ck.cases_metadata,
                                               !.remove_index = ck.remove_index]
                    /\ UNCHANGED last
    /\ UNCHANGED <<vecFile, faults, rd, cw, otherVars>>

\* add_case line 316, remove_case line 417: save_case_metadata
SaveMetadata ==
    /\ wr.pc = "save_metadata"
    /\ \E sv \in {save_case_metadata(metaFile, wr.cases_metadata, "none")} :
          /\ metaFile' = sv.file
          /\ IF sv.exc # "none"
             THEN Finish(wr.op, sv.exc, sv.msg, "none")
             ELSE /\ wr' = [wr EXCEPT !.pc = "load_vectors"]
                  /\ UNCHANGED last
    /\ UNCHANGED <<vecFile, faults, rd, cw, otherVars>>

\* add_case lines 319-323, remove_case lines 420-423: load the vectors and
\* build the new array
LoadVectors ==
    /\ wr.pc = "load_vectors"
    /\ \E existing_vectors \in {load_case_vectors(vecFile)} :
          IF wr.op = "add_case"
          THEN \E nv \in {add_case_vectors(existing_vectors, wr.vector)} :
                  IF nv.exc # "none"
                  THEN Finish("add_case", nv.exc, nv.msg, "none")
                  ELSE /\ wr' = [wr EXCEPT !.pc = "save_vectors", !.vectors = nv.vectors]
                       /\ UNCHANGED last
          ELSE IF existing_vectors.kind # "None"
                  /\ wr.remove_index < Len(existing_vectors.rows)
               THEN /\ wr' = [wr EXCEPT !.pc = "save_vectors",
                                        !.vectors = np_delete(existing_vectors,
                                                              wr.remove_index)]
                    /\ UNCHANGED last
               ELSE Finish("remove_case", "none", "", "True")
    /\ UNCHANGED <<metaFile, vecFile, faults, rd, cw, otherVars>>

\* add_case line 326, remove_case line 424: save_case_vectors
SaveVectors ==
    /\ wr.pc = "save_vectors"
    /\ vecFile' = save_case_vectors(vecFile, wr.vectors, "none").file
    /\ Finish(wr.op, "none", "", IF wr.op = "remove_case" THEN "True" ELSE "none")
    /\ UNCHANGED <<metaFile, faults, rd, cw, otherVars>>

\* validate_repository, lines 446-447: read the metadata file
ReadMetadata ==
    /\ rd.pc = "idle"
    /\ rd' = [pc |-> "load_vectors", full_metadata |-> metaFile]
    /\ UNCHANGED <<metaFile, vecFile, last, faults, wr, cw, otherVars>>

\* validate_repository, lines 449-529: load the vectors, compare, report
ReadVectors ==
    /\ rd.pc = "load_vectors"
    /\ last' = Last("validate_repository", "none", "", "report", -1,
                    validate_repository(rd.full_metadata, vecFile))
    /\ rd' = IdleReader
    /\ UNCHANGED <<metaFile, vecFile, faults, wr, cw, otherVars>>

NextSteps ==
    \/ AddLoad \/ RemoveLoad \/ SaveMetadata \/ LoadVectors \/ SaveVectors
    \/ ReadMetadata \/ ReadVectors

SpecSteps == Init /\ [][NextSteps]_vars

(***************************************************************************)
(* Two add_case calls made by two callers on one repository with nothing   *)
(* that serializes them: CaseRepository holds no lock, so the file         *)
(* accesses of the two calls interleave freely.  Each caller makes one     *)
(* call, for a case id the other does not use.  Before the first of them   *)
(* starts, completed add_case and remove_case calls fill the repository.   *)
(***************************************************************************)
ConcurrentInputs ==
    { <<Doc("A", "T"), <<1, 0>>>>, <<Doc("B", "T"), <<0, 1>>>>,
      <<Doc("C", "T"), <<1, 1>>>> }

\* No caller has started its call
NoneStarted == \A c \in Callers : cw.calls[c].pc = "idle"

\* A step of caller c: its locals move to the given ones; the calls
\* overlap once one of them takes a step while the other is between its
\* first file access and its return
CallerStep(c, locals) ==
    cw' = [cw EXCEPT !.calls[c] = locals,
                     !.overlapped = IF \E d \in Callers \ {c} :
                                          cw.calls[d].pc \in InFlight
                                    THEN TRUE ELSE @]

\* The call of caller c ends with the given exception ("none": it returns)
CallerEnd(c, exc) ==
    CallerStep(c, [cw.calls[c] EXCEPT !.pc = "done", !.exc = exc])

AddEarlier == NoneStarted /\ AddCase

RemoveEarlier == NoneStarted /\ RemoveCase

\* add_case, lines 287-313, by caller c
CallerLoad(c) ==
    /\ cw.calls[c].pc = "idle"
    /\ \E input \in ConcurrentInputs :
         /\ \A d \in Callers \ {c} : cw.calls[d].case_id # input[1].case_id
         /\ \E ck \in {add_case_check(metaFile, input[1])} :
               /\ metaFile' = ck.file
               /\ CallerStep(c, [IdleCaller EXCEPT
                                   !.pc = IF ck.exc # "none" THEN "done"
                                          ELSE "save_metadata",
                                   !.case_id = input[1].case_id,
                                   !.cases_metadata = ck.cases_metadata,
                                   !.vector = input[2],
                                   !.exc = ck.exc])
    /\ UNCHANGED <<vecFile, last, faults, wr, rd, otherVars>>

\* add_case line 316 by caller c
CallerSaveMetadata(c) ==
    /\ cw.calls[c].pc = "save_metadata"
    /\ \E sv \in {save_case_metadata(metaFile, cw.calls[c].cases_metadata, "none")} :
          /\ metaFile' = sv.file
          /\ IF sv.exc # "none"
             THEN CallerEnd(c, sv.exc)
             ELSE CallerStep(c, [cw.calls[c] EXCEPT !.pc = "load_vectors"])
    /\ UNCHANGED <<vecFile, last, faults, wr, rd, otherVars>>

\* add_case lines 319-323 by caller c
CallerLoadVectors(c) ==
    /\ cw.calls[c].pc = "load_vectors"
    /\ \E nv \in {add_case_vectors(load_case_vectors(vecFile), cw.calls[c].vector)} :
          IF nv.exc # "none"
          THEN CallerEnd(c, nv.exc)
          ELSE CallerStep(c, [cw.calls[c] EXCEPT !.pc = "save_vectors",
                                                 !.vectors = nv.vectors])
    /\ UNCHANGED <<metaFile, vecFile, last, faults, wr, rd, otherVars>>

\* add_case line 326 by caller c
CallerSaveVectors(c) ==
    /\ cw.calls[c].pc = "save_vectors"
    /\ \E sv \in {save_case_vectors(vecFile, cw.calls[c].vectors, "none")} :
          /\ vecFile' = sv.file
          /\ CallerEnd(c, sv.exc)
    /\ UNCHANGED <<metaFile, last, faults, wr, rd, otherVars>>

ConcurrentLoad == \E c \in Callers : CallerLoad(c)
ConcurrentSaveMetadata == \E c \in Callers : CallerSaveMetadata(c)
ConcurrentLoadVectors == \E c \in Callers : CallerLoadVectors(c)
ConcurrentSaveVectors == \E c \in Callers : CallerSaveVectors(c)

NextConcurrent ==
    \/ AddEarlier \/ RemoveEarlier
    \/ ConcurrentLoad \/ ConcurrentSaveMetadata
    \/ ConcurrentLoadVectors \/ ConcurrentSaveVectors

SpecConcurrent == Init /\ [][NextConcurrent]_vars

(***************************************************************************)
(* The files as another process, an editor or an interrupted write may     *)
(* leave them, read by load_case_metadata and validate_repository.         *)
(***************************************************************************)
\* A stored record: case id, title and vector_index
Rec(case_id, title, vector_index) ==
    dict_update(to_dict(Doc(case_id, title)),
                [k \in {"vector_index"} |-> PyInt(vector_index)])

\* A record without its case_id
RecNoId ==
    [k \in {"title", "date", "file_path"} |-> Rec("A", "T", 0)[k]]

\* The contents of the metadata file
MetaFiles ==
    { AbsentMeta, BadJsonMeta,
      [MetaDoc(<<>>, InitTime, InitTime, 0) EXCEPT !.keys = {}],
      [MetaDoc(<<>>, InitTime, InitTime, 0) EXCEPT !.keys = {"cases"}],
      [MetaDoc(<<>>, InitTime, InitTime, 0) EXCEPT !.keys = {"metadata"}],
      [MetaDoc(<<>>, InitTime, InitTime, 0) EXCEPT !.defects = {"cases_not_list"}],
      [MetaDoc(<<>>, InitTime, InitTime, 0) EXCEPT !.defects = {"metadata_not_dict"}],
      [MetaDoc(<<>>, InitTime, InitTime, 0) EXCEPT !.defects = {"meta_fields_missing"}],
      MetaDoc(<<>>, InitTime, InitTime, 0),
      MetaDoc(<<Rec("A", "T", 0)>>, InitTime, InitTime, 1),
      MetaDoc(<<Rec("A", "T", 0), Rec("B", "T", 1)>>, InitTime, InitTime, 2),
      MetaDoc(<<Rec("A", "", 0)>>, InitTime, InitTime, 1),
      MetaDoc(<<Rec("A", "T", 0), Rec("A", "T", 1)>>, InitTime, InitTime, 2),
      MetaDoc(<<Rec("A", "T", 1)>>, InitTime, InitTime, 1),
      MetaDoc(<<Rec("A", "T", 0)>>, InitTime, InitTime, 2),
      MetaDoc(<<RecNoId>>, InitTime, InitTime, 1) }

\* The contents of the vector file
VecFiles ==
    { AbsentVectors, CorruptVectors, Matrix(<<<<1, 0>>>>, 2),
      Matrix(<<<<1, 0>>, <<0, 1>>>>, 2) }

ExternalMetadata ==
    /\ \E mf \in MetaFiles : metaFile' = mf
    /\ UNCHANGED <<vecFile, last, faults, wr, rd, cw, otherVars>>

ExternalVectors ==
    /\ \E vf \in VecFiles : vecFile' = vf
    /\ UNCHANGED <<metaFile, last, faults, wr, rd, cw, otherVars>>

\* A call of load_case_metadata
LoadCaseMetadata ==
    /\ \E ld \in {load_case_metadata(metaFile)} :
          /\ metaFile' = ld.file
          /\ last' = [Last("load_case_metadata", ld.exc,
                           IF ld.exc = "none" THEN "" ELSE "load",
                           IF ld.exc = "none" THEN "list" ELSE "none",
                           -1, initial_results)
                      EXCEPT !.cases = ld.cases]
    /\ UNCHANGED <<vecFile, faults, wr, rd, cw, otherVars>>

NextFiles ==
    ExternalMetadata \/ ExternalVectors \/ LoadCaseMetadata \/ ValidateRepository

SpecFiles == Init /\ [][NextFiles]_vars

(***************************************************************************)
(* The similarity search engine: construction, search, and the direct      *)
(* construction of a SearchResult.                                         *)
(***************************************************************************)
\* The rows of a corpus: two axes, their diagonal, and the zero vector
RowVectors == { <<1, 0>>, <<0, 1>>, <<1, 1>>, <<0, 0>> }

\* The corpus matrices, of no row up to MaxCorpus rows
Corpora ==
    { Matrix(rows, 2) : rows \in UNION { [1..n -> RowVectors] : n \in 0..MaxCorpus } }

\* The metadata list of n records, as the repository stores them
MetadataList(n) ==
    [i \in 1..n |-> Rec(CASE i = 1 -> "A" [] i = 2 -> "B" [] i = 3 -> "C" [] OTHER -> "D",
                        "T", i - 1)]

\* The query vectors: of the dimension of the corpus (one of them opposite
\* to a row, one of norm zero) and of another dimension
Queries == { <<1, 0>>, <<-1, 0>>, <<0, 0>>, <<1>> }

\* The raw scores a SearchResult is constructed with: -1/2, 0, 1/2, 1 and
\* a value above 1
RawScores == { Sim(-1, 4), Sim(0, 1), Sim(1, 4), Sim(1, 1), Sim(5, 4) }

\* SimilaritySearchEngine(case_vectors, case_metadata), which the program
\* calls once, at start-up; when it raises, the program has no engine
NewEngineCall(case_vectors, case_metadata) ==
    /\ ~eng.engine.built
    /\ \E o \in {init_engine(case_vectors, case_metadata)} :
          eng' = EngineCall(IF o.exc = "none" THEN o.engine ELSE eng.engine,
                            "init", o.exc, "", <<>>, 0, <<>>, <<>>)
    /\ UNCHANGED <<repoVars, vz, pp, voc, pm>>

NewEngine ==
    \E case_vectors \in Corpora, n \in 0..MaxCorpus :
        NewEngineCall(case_vectors, MetadataList(n))

\* engine.search(query_vector, k), for each order np.argsort may return
Search ==
    /\ eng.engine.built
    /\ \E query_vector \in Queries, k \in 0..MaxK :
          \E order \in IF Len(query_vector) = eng.engine.case_vectors.cols
                        THEN argsort(similarities_of(eng.engine, query_vector))
                        ELSE {<<>>} :
             \E o \in {search(eng.engine, query_vector, k, order)} :
                eng' = EngineCall(eng.engine, "search", o.exc, o.msg, query_vector, k,
                                  o.top_k_indices, o.results)
    /\ UNCHANGED <<repoVars, vz, pp, voc, pm>>

\* SearchResult(..., similarity_score=raw, ...) constructed directly
NewSearchResult ==
    /\ \E raw \in RawScores :
          \E r \in {SearchResult("A", raw)} :
             eng' = [EngineCall(eng.engine, "SearchResult", r.exc, "", <<>>, 0, <<>>,
                                IF r.exc = "none" THEN <<r>> ELSE <<>>)
                     EXCEPT !.raw = raw]
    /\ UNCHANGED <<repoVars, vz, pp, voc, pm>>

NextSearch == NewEngine \/ Search \/ NewSearchResult

SpecSearch == Init /\ [][NextSearch]_vars

(***************************************************************************)
(* The vectorizer: its construction over a vocabulary, its methods, the    *)
(* mutations of the vocabulary it holds, and the model file as another     *)
(* vectorizer may leave it.                                                *)
(***************************************************************************)
\* The term lists a vocabulary is loaded with (the 200 to 300 terms of the
\* vocabulary file stand scaled down): two orders of two terms, three
\* terms, and a list naming a term twice, which load_vocabulary accepts
Vocabularies ==
    { <<"tort", "lien">>, <<"lien", "tort">>, <<"tort", "lien", "writ">>,
      <<"tort", "tort">> }

\* The terms added to and removed from the vocabulary
MutatedTerms == {"tort", "writ"}

\* The documents in an order, and what transform returns for each
DocumentList == << <<>>, <<"tort">>, <<"tort", "lien", "tort">>, <<"writ", "deed">> >>

transform_each(self, file) ==
    [d \in 1..Len(DocumentList) |-> transform(self, file, DocumentList[d]).ret]

\* The documents, as token sequences: empty, of one term, with a repeated
\* term, and with a token outside every vocabulary
Documents == { DocumentList[d] : d \in 1..Len(DocumentList) }

\* The corpora handed to fit: empty, of one and of two documents
FitCorpora ==
    { <<>>, << <<"tort">> >>, << <<"tort", "lien", "tort">>, <<"writ", "deed">> >> }

\* A model saved by a vectorizer constructed over another vocabulary
ForeignModel ==
    ModelData(sk_fit(TfidfVectorizer(<<"writ">>), << <<"writ", "deed">> >>),
              1, <<"writ">>, TRUE)

\* A call on the constructed vectorizer with its outcome
VzStep(op, o, doc) ==
    /\ vz' = [VzCall(o.self, o.file, vz.constructed, op, o.exc, o.ret, doc)
              EXCEPT !.saved = IF op = "save_model" /\ o.exc = "none"
                               THEN transform_each(vz.self, vz.file)
                               ELSE vz.saved]
    /\ UNCHANGED <<repoVars, eng, pp, voc, pm>>

\* LegalVectorizer(vocabulary): the program constructs its vectorizer, at
\* its start and again at each later start, the model file staying
NewVectorizer ==
    /\ \E terms \in Vocabularies :
          vz' = [VzCall(LegalVectorizer(terms), vz.file, terms, "init", "none", <<>>, <<>>)
                 EXCEPT !.saved = vz.saved]
    /\ UNCHANGED <<repoVars, eng, pp, voc, pm>>

Fit ==
    /\ vz.self.built
    /\ \E documents \in FitCorpora :
          VzStep("fit", fit(vz.self, vz.file, documents), <<>>)

Transform ==
    /\ vz.self.built
    /\ \E doc \in Documents :
          VzStep("transform", transform(vz.self, vz.file, doc), doc)

GetFeatureNames ==
    /\ vz.self.built
    /\ VzStep("get_feature_names", get_feature_names(vz.self, vz.file), <<>>)

GetVectorDimension ==
    /\ vz.self.built
    /\ VzStep("get_vector_dimension", get_vector_dimension(vz.self, vz.file), <<>>)

SaveModel ==
    /\ vz.self.built
    /\ VzStep("save_model", save_model(vz.self, vz.file), <<>>)

LoadModel ==
    /\ vz.self.built
    /\ VzStep("load_model", load_model(vz.self, vz.file), <<>>)

GetTopFeatures ==
    /\ vz.self.built
    /\ \E doc \in Documents :
          VzStep("get_top_features", get_top_features(vz.self, vz.file, doc), doc)

CalculateSimilarity ==
    /\ vz.self.built
    /\ \E doc1 \in Documents :
          VzStep("calculate_similarity",
                 calculate_similarity(vz.self, vz.file, doc1, <<"tort">>), doc1)

\* vectorizer.vocabulary.add_term(term)
AddTerm ==
    /\ vz.self.built
    /\ \E term \in MutatedTerms :
          VzStep("add_term",
                 VzOutcome("none", <<>>,
                           [vz.self EXCEPT !.vocabulary = add_term(@, term)], vz.file),
                 <<>>)

\* vectorizer.vocabulary.remove_term(term)
RemoveTerm ==
    /\ vz.self.built
    /\ \E term \in MutatedTerms :
          \E r \in {remove_term(vz.self.vocabulary, term)} :
             VzStep("remove_term",
                    VzOutcome("none", <<r.ret>>,
                              [vz.self EXCEPT !.vocabulary = r.terms], vz.file),
                    <<>>)

\* Another process removes the model file, damages it, or saves its own
ExternalModel ==
    /\ \E file \in {AbsentModel, CorruptModel, ForeignModel} :
          /\ file # vz.file
          /\ vz' = VzCall(vz.self, file, vz.constructed, "external", "none", <<>>, <<>>)
    /\ UNCHANGED <<repoVars, eng, pp, voc, pm>>

NextVectorizer ==
    \/ NewVectorizer \/ Fit \/ Transform \/ GetFeatureNames \/ GetVectorDimension
    \/ SaveModel \/ LoadModel \/ GetTopFeatures \/ CalculateSimilarity
    \/ AddTerm \/ RemoveTerm \/ ExternalModel

SpecVectorizer == Init /\ [][NextVectorizer]_vars

(***************************************************************************)
(* The text preprocessor: its construction in each environment, and the    *)
(* calls of preprocess, normalize_text and preprocess_batch.               *)
(***************************************************************************)
\* The arguments: the empty string, white space, punctuation only,
\* "The Cats!", "cannot a1 law", and values that are no strings
TextInputs ==
    { Str(<<>>), Str(<<" ", "\n">>), Str(<<"!", "!">>),
      Str(<<"T", "h", "e", " ", "C", "a", "t", "s", "!">>),
      Str(<<"c", "a", "n", "n", "o", "t", " ", "a", "1", " ", "l", "a", "w">>),
      NoneValue, IntValue(0), IntValue(7), ListValue(0), ListValue(1) }

\* TextPreprocessor(enable_lemmatization), constructed once, in each
\* environment
NewTextPreprocessor ==
    /\ ~pp.built
    /\ \E enable_lemmatization, stopwords_ok, punkt, wordnet \in BOOLEAN :
          pp' = PpCall(TRUE,
                       TextPreprocessor(enable_lemmatization, stopwords_ok, punkt, wordnet),
                       "init", NoneValue, <<>>, NoEarlier)
    /\ UNCHANGED <<repoVars, eng, vz, voc, pm>>

\* preprocessor.preprocess(text); keep tells whether this call is the one
\* later calls are compared with
Preprocess ==
    /\ pp.built
    /\ \E text \in TextInputs, keep \in BOOLEAN :
          \E ret \in {preprocess(pp.self, text)} :
             pp' = PpCall(TRUE, after_call(pp.self), "preprocess", text, ret,
                          IF keep
                          THEN [kept |-> TRUE, text |-> text, ret |-> ret, calls |-> 0]
                          ELSE one_more_call(pp.earlier))
    /\ UNCHANGED <<repoVars, eng, vz, voc, pm>>

\* preprocessor.normalize_text(text)
NormalizeText ==
    /\ pp.built
    /\ \E text \in TextInputs :
          pp' = PpCall(TRUE, after_call(pp.self), "normalize_text", text,
                       normalize_text(pp.self, text), one_more_call(pp.earlier))
    /\ UNCHANGED <<repoVars, eng, vz, voc, pm>>

\* preprocessor.preprocess_batch([text1, text2]): the list of the results
PreprocessBatch ==
    /\ pp.built
    /\ \E text1 \in TextInputs :
          pp' = PpCall(TRUE, after_call(after_call(pp.self)), "preprocess_batch", text1,
                       <<preprocess(pp.self, text1),
                         preprocess(after_call(pp.self), Str(<<"T", "h", "e", " ", "C", "a", "t", "s", "!">>))>>,
                       one_more_call(pp.earlier))
    /\ UNCHANGED <<repoVars, eng, vz, voc, pm>>

NextPreprocessor == NewTextPreprocessor \/ Preprocess \/ NormalizeText \/ PreprocessBatch

SpecPreprocessor == Init /\ [][NextPreprocessor]_vars

(***************************************************************************)
(* The vocabulary: its construction from the vocabulary file as it may be  *)
(* found, and add_term and remove_term.                                    *)
(***************************************************************************)
AllTerms == <<"tort", "lien", "writ", "deed", "bail", "plea">>

\* The first n terms
TermList(n) == SubSeq(AllTerms, 1, n)

\* The categories of a file: one category, "civil"
Civil(members) == [c \in {"civil"} |-> members]

\* The vocabulary files: absent, not JSON, of the smallest and of the
\* largest size, one term short and one term over, naming a term twice,
\* with a category member that is no term, and without categories
VocabularyFiles ==
    { AbsentVocabulary, BadJsonVocabulary,
      VocabularyData(TermList(MinVocabularyTerms), Civil(<<"tort">>), {}),
      VocabularyData(TermList(MaxVocabularyTerms), Civil(<<"tort">>), {"tort"}),
      VocabularyData(TermList(MinVocabularyTerms - 1), Civil(<<"tort">>), {}),
      VocabularyData(TermList(MaxVocabularyTerms + 1), Civil(<<"tort">>), {}),
      VocabularyData(<<"tort">> \o TermList(MinVocabularyTerms - 1), Civil(<<"tort">>), {}),
      VocabularyData(TermList(MinVocabularyTerms), Civil(<<"plea">>), {}),
      VocabularyData(TermList(MinVocabularyTerms), <<>>, {}) }

\* The terms added and removed: one that the files hold and one that none
\* holds
VocabularyTerms == {"tort", "plea"}

\* LegalVocabulary(path), constructed once; when it raises there is no
\* vocabulary
NewVocabulary ==
    /\ ~voc.self.built
    /\ \E file \in VocabularyFiles :
          \E o \in {load_vocabulary(file)} :
             voc' = VocCall(o.self, "init", o.exc, FALSE)
    /\ UNCHANGED <<repoVars, eng, vz, pp, pm>>

\* vocabulary.add_term(term, category, weight)
AddTermTo ==
    /\ voc.self.built
    /\ \E term \in VocabularyTerms, category \in {"", "civil", "other"},
          weight \in BOOLEAN :
          voc' = VocCall(add_term_to(voc.self, term, category, weight),
                         "add_term", "none", FALSE)
    /\ UNCHANGED <<repoVars, eng, vz, pp, pm>>

\* vocabulary.remove_term(term)
RemoveTermFrom ==
    /\ voc.self.built
    /\ \E term \in VocabularyTerms :
          \E r \in {remove_term_from(voc.self, term)} :
             voc' = VocCall(r.self, "remove_term", "none", r.ret)
    /\ UNCHANGED <<repoVars, eng, vz, pp, pm>>

NextVocabulary == NewVocabulary \/ AddTermTo \/ RemoveTermFrom

SpecVocabulary == Init /\ [][NextVocabulary]_vars

(***************************************************************************)
(* The performance monitor: blocks entered and left by the threads, each   *)
(* thread leaving its innermost block first, and reset_stats.              *)
(***************************************************************************)
\* The number of blocks entered and not left
ActiveBlocks(stacks) ==
    Cardinality({ <<t, i>> \in Threads \X (1..MaxBlocks) : i <= Len(stacks[t]) })

\* with monitor.track_operation(name): a thread enters a block; the id of
\* its metrics object is one no live object has
EnterBlock ==
    /\ pm.entered < MaxBlocks
    /\ \E t \in Threads :
          LET operation_id == pm.entered + 1
              stacks == [pm.stacks EXCEPT ![t] = Append(@, operation_id)]
          IN  pm' = Monitor(enter_block(pm.self, operation_id), stacks, pm.entered + 1,
                            IF ActiveBlocks(stacks) > pm.peak
                            THEN ActiveBlocks(stacks) ELSE pm.peak,
                            pm.reset)
    /\ UNCHANGED <<repoVars, eng, vz, pp, voc>>

\* A thread leaves its innermost block, the body having returned or raised
LeaveBlock ==
    /\ \E t \in Threads, success \in BOOLEAN :
          /\ pm.stacks[t] # <<>>
          /\ LET operation_id == pm.stacks[t][Len(pm.stacks[t])]
                 stacks == [pm.stacks EXCEPT ![t] = SubSeq(@, 1, Len(@) - 1)]
             IN  pm' = Monitor(leave_block(pm.self, operation_id, success), stacks,
                               pm.entered, pm.peak, pm.reset)
    /\ UNCHANGED <<repoVars, eng, vz, pp, voc>>

\* monitor.reset_stats()
ResetStats ==
    /\ pm' = Monitor(reset_stats(pm.self), pm.stacks, pm.entered, pm.peak, TRUE)
    /\ UNCHANGED <<repoVars, eng, vz, pp, voc>>

NextMonitor == EnterBlock \/ LeaveBlock \/ ResetStats

SpecMonitor == Init /\ [][NextMonitor]_vars

(***************************************************************************)
(* Properties.                                                             *)
(***************************************************************************)
\* The number of persisted metadata records and of persisted vector rows
MetaCount == IF metaFile.kind = "json" THEN Len(metaFile.cases) ELSE 0
VectorRows == IF vecFile.kind = "array" THEN Len(vecFile.rows) ELSE 0

\* The 1-based position of the first record with the given id, 0 if none
FirstWithId(cases, id) ==
    IF \E i \in 1..Len(cases) : cases[i]["case_id"] = PyStr(id)
    THEN CHOOSE i \in 1..Len(cases) :
            /\ cases[i]["case_id"] = PyStr(id)
            /\ \A j \in 1..(i - 1) : cases[j]["case_id"] # PyStr(id)
    ELSE 0

Range(seq) == {seq[i] : i \in 1..Len(seq)}

\* C1: starting from the empty repository, after any sequence of completed
\* add_case and remove_case calls with no I/O failure, every record's
\* vector_index is its position and there are as many metadata records as
\* vector rows.
C1_IndexInvariant ==
    /\ metaFile.kind = "json"
    /\ \A i \in 1..Len(metaFile.cases) :
          metaFile.cases[i]["vector_index"] = PyInt(i - 1)
    /\ Len(metaFile.cases) = VectorRows

\* C2: in a repository of n cases with n vectors, a successful remove_case
\* of the case at position p leaves the other n-1 cases in their order with
\* vector_index 0..n-2, and the other n-1 vector rows in their order, so
\* that each surviving case still addresses its own vector.
C2_RemoveKeepsAlignment ==
    [][\A id \in CaseIds :
          ( /\ metaFile.kind = "json"
            /\ vecFile.kind = "array"
            /\ Len(metaFile.cases) = Len(vecFile.rows)
            /\ last'.op = "remove_case"
            /\ last'.ret = "True"
            /\ RemoveCaseCall(id, "none") )
          => LET n == Len(metaFile.cases)
                 p == FirstWithId(metaFile.cases, id)
             IN /\ p \in 1..n
                /\ metaFile'.kind = "json"
                /\ vecFile'.kind = "array"
                /\ Len(metaFile'.cases) = n - 1
                /\ Len(vecFile'.rows) = n - 1
                /\ \A i \in 1..(n - 1) :
                      LET src == IF i < p THEN i ELSE i + 1
                      IN /\ DOMAIN metaFile'.cases[i] = DOMAIN metaFile.cases[src]
                         /\ \A k \in DOMAIN metaFile.cases[src] \ {"vector_index"} :
                               metaFile'.cases[i][k] = metaFile.cases[src][k]
                         /\ metaFile'.cases[i]["vector_index"] = PyInt(i - 1)
                         /\ vecFile'.rows[i] = vecFile.rows[src]
      ]_vars

\* C2 witness: the middle one of three cases with three vectors was removed
C2_Witness ==
    /\ last.op = "remove_case" /\ last.ret = "True" /\ last.pos = 1
    /\ metaFile.kind = "json" /\ Len(metaFile.cases) = 2
    /\ vecFile.kind = "array" /\ Len(vecFile.rows) = 2

\* C3: in no outcome of add_case, a failed write included, does the number
\* of persisted metadata records differ from the number of persisted
\* vector rows.
C3_AddCaseAllOrNothing ==
    last.op = "add_case" => MetaCount = VectorRows

\* C4: a validate_repository that runs while one add_case or remove_case is
\* in progress never observes a metadata record count that differs from
\* the vector row count.
C4_ReaderSeesEqualCounts ==
    last.op = "validate_repository"
        => last.report.metadata_count = last.report.vector_count

\* C5 as stated: add_case with an id that is already stored is rejected
\* with the duplicate error and changes neither file.
C5_DuplicateRejected ==
    [][\A input \in AddInputs :
          ( /\ metaFile.kind = "json"
            /\ FirstWithId(metaFile.cases, input[1].case_id) # 0
            /\ last'.op = "add_case"
            /\ AddCaseCall(input[1], input[2], "none") )
          => /\ last'.exc = "ValueError"
             /\ last'.msg = "duplicate"
             /\ UNCHANGED <<metaFile, vecFile>>
      ]_vars

\* C5 as amended: add_case with an id that is already stored is rejected
\* and changes neither file; the error is the duplicate error when the
\* repository holds fewer than MAX_REPOSITORY_SIZE cases and the capacity
\* error when it is full.
C5_DuplicateRejectedBelowCapacity ==
    [][\A input \in AddInputs :
          ( /\ metaFile.kind = "json"
            /\ FirstWithId(metaFile.cases, input[1].case_id) # 0
            /\ last'.op = "add_case"
            /\ AddCaseCall(input[1], input[2], "none") )
          => /\ last'.exc = "ValueError"
             /\ last'.msg = IF Len(metaFile.cases) < MAX_REPOSITORY_SIZE
                            THEN "duplicate" ELSE "capacity"
             /\ UNCHANGED <<metaFile, vecFile>>
      ]_vars

\* C5 witness: an add_case was rejected as a duplicate
C5_Witness ==
    /\ last.op = "add_case" /\ last.exc = "ValueError" /\ last.msg = "duplicate"
    /\ metaFile.kind = "json" /\ Len(metaFile.cases) > 0

\* C6: add_case on a repository of exactly MAX_REPOSITORY_SIZE cases is
\* rejected with the capacity error and changes neither file.
C6_CapacityEnforced ==
    [][\A input \in AddInputs :
          ( /\ metaFile.kind = "json"
            /\ Len(metaFile.cases) = MAX_REPOSITORY_SIZE
            /\ last'.op = "add_case"
            /\ AddCaseCall(input[1], input[2], "none") )
          => /\ last'.exc = "ValueError"
             /\ last'.msg = "capacity"
             /\ UNCHANGED <<metaFile, vecFile>>
      ]_vars

\* C6 witness: an add_case was rejected by a full repository
C6_Witness ==
    /\ last.op = "add_case" /\ last.exc = "ValueError" /\ last.msg = "capacity"
    /\ metaFile.kind = "json" /\ Len(metaFile.cases) = MAX_REPOSITORY_SIZE

\* C7: after any sequence of add_case, remove_case and
\* update_case_metadata, no two records have the same case_id.
C7_UniqueCaseIds ==
    metaFile.kind = "json" =>
        \A i, j \in 1..Len(metaFile.cases) :
            i # j => metaFile.cases[i]["case_id"] # metaFile.cases[j]["case_id"]

\* C8: whenever the number of persisted metadata records differs from the
\* number of persisted vector rows (no rows when the vector file is missing
\* or unreadable), validate_repository returns consistent = false and
\* reports the mismatch.
C8_ValidateReportsCountMismatch ==
    ( /\ last.op = "validate_repository"
      /\ metaFile.kind = "json"
      /\ Len(metaFile.cases) # VectorRows )
    => /\ ~last.report.consistent
       /\ "Metadata count doesn't match vector count" \in Range(last.report.issues)

\* C9: for a well-formed metadata file, validate_repository returns
\* consistent = false exactly when a record fails validation, two records
\* share a case_id, a vector_index is not the position, total_cases is not
\* the record count, the count exceeds MAX_REPOSITORY_SIZE or the count is
\* not the number of vector rows; capacity_ok is false exactly when the
\* count exceeds MAX_REPOSITORY_SIZE.
C9_ValidateConsistentIff ==
    ( /\ last.op = "validate_repository"
      /\ metaFile.kind = "json"
      /\ validate_metadata_structure(metaFile) = <<>> )
    => LET cases == metaFile.cases
           n == Len(cases)
       IN /\ ~last.report.consistent <=>
                \/ \E i \in 1..n : validate_case_metadata(cases[i]) # <<>>
                \/ \E i, j \in 1..n : i # j /\ cases[i]["case_id"] = cases[j]["case_id"]
                \/ \E i \in 1..n :
                      \/ "vector_index" \notin DOMAIN cases[i]
                      \/ cases[i]["vector_index"] # PyInt(i - 1)
                \/ metaFile.total_cases # n
                \/ n > MAX_REPOSITORY_SIZE
                \/ n # VectorRows
          /\ ~last.report.capacity_ok <=> n > MAX_REPOSITORY_SIZE

\* C10: update_case_metadata returns false and changes nothing when the id
\* is absent; raises the validation error and changes neither file when the
\* merged record fails validation; and otherwise persists the old record
\* overridden by the updates, every other record and the vector file being
\* as before.
C10_UpdateValidatesThenMerges ==
    [][\A id \in CaseIds, updates \in Updates :
          ( /\ metaFile.kind = "json"
            /\ last'.op = "update_case_metadata"
            /\ UpdateCaseMetadataCall(id, updates, "none") )
          => LET cases == metaFile.cases
                 p == FirstWithId(cases, id)
                 merged == [k \in (DOMAIN cases[p]) \cup (DOMAIN updates) |->
                               IF k \in DOMAIN updates THEN updates[k] ELSE cases[p][k]]
             IN IF p = 0
                THEN /\ last'.exc = "none" /\ last'.ret = "False"
                     /\ UNCHANGED <<metaFile, vecFile>>
                ELSE IF validate_case_metadata(merged) # <<>>
                THEN /\ last'.exc = "ValueError" /\ last'.msg = "invalid"
                     /\ UNCHANGED <<metaFile, vecFile>>
                ELSE /\ last'.exc = "none" /\ last'.ret = "True"
                     /\ metaFile'.kind = "json"
                     /\ Len(metaFile'.cases) = Len(cases)
                     /\ metaFile'.cases[p] = merged
                     /\ \A i \in 1..Len(cases) : i # p => metaFile'.cases[i] = cases[i]
                     /\ UNCHANGED vecFile
      ]_vars

\* C10 witness: an update was rejected because the merged record is invalid
C10_Witness ==
    /\ last.op = "update_case_metadata"
    /\ last.exc = "ValueError" /\ last.msg = "invalid"
    /\ metaFile.kind = "json" /\ Len(metaFile.cases) > 0

\* C11: validate_repository leaves the metadata file and the vector file
\* exactly as they were, whatever their state (consistent or not, metadata
\* file absent or malformed, vector file absent or unreadable).
C11_ValidateChangesNothing ==
    [][(last'.op = "validate_repository" /\ ValidateRepository)
          => UNCHANGED <<metaFile, vecFile>>]_vars

\* C11 witness: validate_repository has run with the metadata file absent
C11_Witness ==
    /\ last.op = "validate_repository"
    /\ last.report.issues = <<"Metadata file not found">>
    /\ metaFile.kind = "absent"

\* C12: load_case_metadata on an absent file creates the empty repository
\* and returns the empty list; on a file that is not JSON, lacks the cases
\* or metadata key, or holds a record that fails validation, it raises,
\* returns no record and leaves the file as it is.
C12_LoadRejectsInvalid ==
    [][(last'.op = "load_case_metadata" /\ LoadCaseMetadata)
          => IF metaFile.kind = "absent"
             THEN /\ last'.exc = "none" /\ last'.ret = "list" /\ last'.cases = <<>>
                  /\ metaFile'.kind = "json" /\ metaFile'.cases = <<>>
                  /\ validate_metadata_structure(metaFile') = <<>>
             ELSE IF \/ metaFile.kind = "badjson"
                     \/ ~({"cases", "metadata"} \subseteq metaFile.keys)
                     \/ \E i \in 1..Len(metaFile.cases) :
                           validate_case_metadata(metaFile.cases[i]) # <<>>
             THEN /\ last'.exc = "ValueError" /\ last'.ret = "none"
                  /\ last'.cases = <<>>
                  /\ UNCHANGED metaFile
             ELSE TRUE
      ]_vars

\* C12 witness: a load was rejected because a stored record is invalid
C12_Witness ==
    /\ last.op = "load_case_metadata" /\ last.exc = "ValueError"
    /\ metaFile.kind = "json" /\ Len(metaFile.cases) = 1
    /\ validate_case_metadata(metaFile.cases[1]) # <<>>

\* C13: two add_case calls rejected for different reasons (capacity,
\* duplicate id, invalid record) raise errors of different kinds.
C13_DistinctErrorKinds ==
    [][( /\ last.op = "add_case" /\ last'.op = "add_case"
         /\ last.msg \in {"capacity", "duplicate", "invalid"}
         /\ last'.msg \in {"capacity", "duplicate", "invalid"}
         /\ last.msg # last'.msg )
          => last.exc # last'.exc]_vars

\* The similarities of the last search, and the rows it returned
LastSimilarities == similarities_of(eng.engine, eng.query_vector)
Returned == {eng.top_k_indices[i] : i \in 1..Len(eng.top_k_indices)}
CorpusSize == Len(eng.engine.case_vectors.rows)
Min(a, b) == IF a < b THEN a ELSE b

\* C14: a search that returns gives distinct rows of the corpus, each result
\* carrying the case and the score of its row, and no row left out has a
\* strictly higher similarity than a row returned; on the corpus [1,0],
\* [0,1], [1,1] the query [1,0] with k = 2 returns the first row and then
\* the third.
C14_TopKHighest ==
    (eng.op = "search" /\ eng.exc = "none") =>
        /\ Returned \subseteq 1..CorpusSize
        /\ Cardinality(Returned) = Len(eng.top_k_indices)
        /\ Len(eng.results) = Len(eng.top_k_indices)
        /\ \A i \in 1..Len(eng.results) :
              /\ PyStr(eng.results[i].case_id)
                    = eng.engine.case_metadata[eng.top_k_indices[i]]["case_id"]
              /\ sim_eq(eng.results[i].similarity_score,
                        clamped(LastSimilarities[eng.top_k_indices[i]]))
        /\ \A out \in (1..CorpusSize) \ Returned, in \in Returned :
              ~sim_lt(LastSimilarities[in], LastSimilarities[out])
        /\ ( /\ eng.engine.case_vectors.rows = << <<1, 0>>, <<0, 1>>, <<1, 1>> >>
             /\ eng.query_vector = <<1, 0>> /\ eng.k = 2 )
           => eng.top_k_indices = <<1, 3>>

\* C14 witness: the search of the example has returned
C14_Witness ==
    /\ eng.op = "search" /\ eng.exc = "none"
    /\ eng.engine.case_vectors.rows = << <<1, 0>>, <<0, 1>>, <<1, 1>> >>
    /\ eng.query_vector = <<1, 0>> /\ eng.k = 2
    /\ Len(eng.results) = 2

\* C15: for every query of the corpus's dimensionality and every k >= 0,
\* search returns min(k, corpus_size) results in non-increasing
\* similarity_score order.
C15_RankingOrderAndCount ==
    ( /\ eng.op = "search"
      /\ Len(eng.query_vector) = eng.engine.case_vectors.cols
      /\ eng.k >= 0 )
    => /\ eng.exc = "none"
       /\ Len(eng.results) = Min(eng.k, CorpusSize)
       /\ \A i \in 1..(Len(eng.results) - 1) :
             sim_le(eng.results[i + 1].similarity_score,
                    eng.results[i].similarity_score)

\* C16: rows of equal similarity are returned in the order of the corpus,
\* and of two such rows of which one is returned and one is left out, the
\* one returned has the smaller position.
C16_TiesKeepCorpusOrder ==
    (eng.op = "search" /\ eng.exc = "none") =>
        /\ \A i, j \in 1..Len(eng.top_k_indices) :
              ( /\ i < j
                /\ sim_eq(LastSimilarities[eng.top_k_indices[i]],
                          LastSimilarities[eng.top_k_indices[j]]) )
              => eng.top_k_indices[i] < eng.top_k_indices[j]
        /\ \A out \in (1..CorpusSize) \ Returned, in \in Returned :
              sim_eq(LastSimilarities[in], LastSimilarities[out]) => in < out

\* C17: every SearchResult has a score from 0 to 1; constructing one with a
\* raw score below 0 or above 1 does not raise and gives the score 0 or 1;
\* and in a search a query or a row of norm zero gives the score 0.
C17_ScoreBounds ==
    /\ \A i \in 1..Len(eng.results) :
          /\ sim_le(Sim(0, 1), eng.results[i].similarity_score)
          /\ sim_le(eng.results[i].similarity_score, Sim(1, 1))
    /\ eng.op = "SearchResult" =>
          /\ eng.exc = "none"
          /\ Len(eng.results) = 1
          /\ sim_eq(eng.results[1].similarity_score,
                    IF eng.raw.num < 0 THEN Sim(0, 1)
                    ELSE IF eng.raw.num > eng.raw.den THEN Sim(1, 1)
                    ELSE eng.raw)
    /\ eng.op = "search" => eng.msg # "score"
    /\ (eng.op = "search" /\ eng.exc = "none") =>
          \A i \in 1..Len(eng.results) :
              ( \/ dot(eng.query_vector, eng.query_vector) = 0
                \/ LET row == eng.engine.case_vectors.rows[eng.top_k_indices[i]]
                   IN dot(row, row) = 0 )
              => eng.results[i].similarity_score.num = 0

\* C17 witness: a SearchResult was constructed with a raw score above 1
C17_Witness ==
    /\ eng.op = "SearchResult" /\ eng.exc = "none"
    /\ eng.raw.num > eng.raw.den
    /\ Len(eng.results) = 1

\* C18: constructing an engine whose vector matrix has a row count that is
\* not the length of the metadata list raises and constructs no engine, so
\* that every engine has as many rows as metadata entries; and a search
\* with a query of another dimensionality raises and returns no result.
C18_CountAndDimensionChecked ==
    [][ /\ eng'.engine.built =>
              Len(eng'.engine.case_vectors.rows) = Len(eng'.engine.case_metadata)
        /\ (eng'.op = "search"
              /\ Len(eng'.query_vector) # eng'.engine.case_vectors.cols)
             => (eng'.exc = "ValueError" /\ eng'.results = <<>>)
        /\ eng'.op = "init" =>
              \A case_vectors \in Corpora, n \in 0..MaxCorpus :
                  ( /\ Len(case_vectors.rows) # n
                    /\ NewEngineCall(case_vectors, MetadataList(n)) )
                  => (eng'.exc = "ValueError" /\ ~eng'.engine.built)
      ]_vars

\* C18 witness: a search with a query of another dimensionality was rejected
C18_Witness ==
    /\ eng.op = "search" /\ eng.exc = "ValueError" /\ eng.msg = "dimension"
    /\ eng.engine.built
    /\ Len(eng.query_vector) # eng.engine.case_vectors.cols

\* The methods of the vectorizer that require a fitted vectorizer
GuardedMethods ==
    { "transform", "save_model", "get_feature_names", "get_vector_dimension",
      "get_top_features", "calculate_similarity" }

\* C19: on a vectorizer that is not fitted, transform, save_model,
\* get_feature_names, get_vector_dimension, get_top_features and
\* calculate_similarity each raise NotFittedError, return nothing, leave
\* the model file as it is and the vectorizer unfitted and unchanged; on a
\* fitted vectorizer transform raises nothing and returns one row for the
\* document, whether the document was in the fitted corpus or not.
C19_UnfittedRaises ==
    [][ /\ (~vz.self.is_fitted /\ vz'.op \in GuardedMethods)
            => /\ vz'.exc = "NotFittedError"
               /\ vz'.ret = <<>>
               /\ vz'.file = vz.file
               /\ vz'.self = vz.self
               /\ ~vz'.self.is_fitted
        /\ (vz.self.is_fitted /\ vz'.op = "transform")
            => /\ vz'.exc = "none"
               /\ Len(vz'.ret) = 1
               /\ vz'.self.is_fitted ]_vars

C19_Witness ==
    /\ vz.self.built
    /\ ~vz.self.is_fitted
    /\ vz.op = "save_model"
    /\ vz.exc = "NotFittedError"
    /\ vz.file.kind = "model"

\* C20: after any sequence of fit, load_model, add_term and remove_term,
\* the row a transform returns has vocabulary_size entries, and its entry
\* i is positive exactly when the document holds the i-th term the
\* vectorizer was constructed with.
C20_RowLengthAndTermOrder ==
    (vz.op = "transform" /\ vz.exc = "none")
        => /\ Len(vz.ret[1]) = vocabulary_size(vz.self)
           /\ Len(vz.ret[1]) = Len(vz.constructed)
           /\ \A i \in 1..Len(vz.ret[1]) :
                 (vz.ret[1][i] # ZeroWeight) <=> (term_count(vz.doc, vz.constructed[i]) > 0)

\* C21: after load_model of the model file the vectorizer wrote with
\* save_model, into the same vectorizer or into one constructed since, the
\* vectorizer is fitted and transform returns for each document the row it
\* returned when the file was written, element for element.
C21_SaveLoadRoundTrip ==
    (vz.op = "load_model" /\ vz.exc = "none" /\ vz.saved # <<>>)
        => /\ vz.self.is_fitted
           /\ \A d \in 1..Len(DocumentList) :
                 LET t == transform(vz.self, vz.file, DocumentList[d])
                 IN  t.exc = "none" /\ Len(t.ret) = 1 /\ t.ret = vz.saved[d]

C21_Witness ==
    /\ vz.op = "load_model"
    /\ vz.exc = "none"
    /\ vz.saved # <<>>
    /\ vz.self.vectorizer.vocabulary # vz.constructed
    /\ \E i \in 1..Len(vz.saved[2][1]) : vz.saved[2][1][i] # ZeroWeight

\* C22: after fit, a term of the vocabulary found in more than 80% of the
\* documents of the corpus, or in fewer than 2 of them, has its entry in
\* each row transform returns, and the entry is 0.
C22_OutOfBoundsTermsWeighZero ==
    (vz.op = "transform" /\ vz.exc = "none")
        => \A i \in 1..Len(vz.self.vectorizer.vocabulary) :
              (\/ 5 * vz.self.vectorizer.df[i] > 4 * vz.self.vectorizer.n
               \/ vz.self.vectorizer.df[i] < 2)
                 => (i <= Len(vz.ret[1]) /\ vz.ret[1][i] = ZeroWeight)

C24_VocabularyInvariant ==
    voc.self.built
        => /\ \A i, j \in 1..Len(voc.self.terms) :
                 voc.self.terms[i] = voc.self.terms[j] => i = j
           /\ \A c \in DOMAIN voc.self.categories :
                 \A i \in 1..Len(voc.self.categories[c]) :
                    has_term(voc.self.terms, voc.self.categories[c][i])
           /\ size_in_range(voc.self.terms)

\* The blocks of all threads have been left
AllLeft == \A t \in Threads : pm.stacks[t] = <<>>

\* C25: while reset_stats has not run, active_requests is the number of
\* blocks entered and not left, which is 0 once all are left, whether
\* they returned or raised; max_concurrent_requests is the largest number
\* of blocks active at once; total_requests is the number of blocks
\* entered.
C25_RequestCounters ==
    ~pm.reset
        => /\ pm.self.active_requests = ActiveBlocks(pm.stacks)
           /\ AllLeft => pm.self.active_requests = 0
           /\ pm.self.max_concurrent_requests = pm.peak
           /\ pm.self.total_requests = pm.entered

C25_Witness ==
    /\ ~pm.reset
    /\ AllLeft
    /\ pm.entered = MaxBlocks
    /\ pm.peak >= 2
    /\ pm.self.max_concurrent_requests >= 2
    /\ \E i \in 1..Len(pm.self.metrics_history) : ~pm.self.metrics_history[i][2]

\* C30: in every state of the monitor, also when reset_stats ran while a
\* block was active, active_requests is not negative and is the number of
\* entries of active_operations.
C30_ActiveRequestsMatchOperations ==
    /\ pm.self.active_requests >= 0
    /\ pm.self.active_requests = Cardinality(pm.self.active_operations)

\* Every record's vector_index is its position
Aligned(cases) == \A i \in 1..Len(cases) : cases[i]["vector_index"] = PyInt(i - 1)

\* C26: a successful update_case_metadata on a repository whose records
\* have their position as vector_index leaves every record with its
\* position as vector_index, whatever keys the updates hold; the records
\* keep their number and places, at most one of them changed, and the
\* vector file is as before.
C26_UpdateKeepsAlignment ==
    [][ ( /\ last'.op = "update_case_metadata"
          /\ last'.exc = "none"
          /\ last'.ret = "True"
          /\ metaFile.kind = "json"
          /\ Aligned(metaFile.cases) )
        => /\ metaFile'.kind = "json"
           /\ Len(metaFile'.cases) = Len(metaFile.cases)
           /\ Cardinality({i \in 1..Len(metaFile.cases) :
                             metaFile'.cases[i] # metaFile.cases[i]}) <= 1
           /\ Aligned(metaFile'.cases)
           /\ vecFile' = vecFile ]_vars

\* Both concurrent add_case calls have returned without an exception
BothReturned ==
    \A c \in Callers : cw.calls[c].pc = "done" /\ cw.calls[c].exc = "none"

\* The index alignment with the records of both callers stored: every
\* vector_index is its position, as many vector rows as records, and a
\* record for each of the two case ids
BothStoredAligned ==
    /\ metaFile.kind = "json"
    /\ Aligned(metaFile.cases)
    /\ Len(metaFile.cases) = VectorRows
    /\ \A c \in Callers : FirstWithId(metaFile.cases, cw.calls[c].case_id) # 0

\* C27: when two add_case calls for different case ids have both returned
\* successfully and the index alignment is broken (a record lost, a
\* vector_index that is not the position, or a record count that differs
\* from the row count), the two calls overlapped: serialized calls leave
\* the alignment intact.  The witness is the broken state that interleaved
\* calls reach.
C27_SerializedAddCaseKeepsAlignment ==
    (BothReturned /\ ~cw.overlapped) => BothStoredAligned

C27_Witness == BothReturned /\ cw.overlapped /\ ~BothStoredAligned

\* The vector file cannot be read: missing, or rejected by pickle.load
Unreadable(vf) == vf.kind \in {"absent", "corrupt"}

\* C28: a successful add_case on a repository of n metadata records whose
\* vector file holds n rows, or cannot be read, leaves a vector file of
\* n + 1 rows: the rows it held, in their order, followed by the new vector.
C28_AddCaseKeepsStoredVectors ==
    [][ ( /\ last'.op = "add_case"
          /\ last'.exc = "none"
          /\ metaFile.kind = "json"
          /\ IF vecFile.kind = "array"
             THEN Len(vecFile.rows) = Len(metaFile.cases)
             ELSE Unreadable(vecFile) )
        => /\ vecFile'.kind = "array"
           /\ Len(vecFile'.rows) = Len(metaFile.cases) + 1
           /\ \A i \in 1..Len(vecFile.rows) : vecFile'.rows[i] = vecFile.rows[i]
           /\ \E input \in AddInputs \cup OtherDimInputs :
                 vecFile'.rows[Len(vecFile'.rows)] = input[2] ]_vars

\* The calls that rewrite the metadata file
MutatingCalls == {"add_case", "remove_case", "update_case_metadata"}

\* C29: after every add_case, remove_case or update_case_metadata that
\* completed without an exception, the metadata file is a JSON document
\* whose total_cases is the number of records of its cases array and at
\* most MAX_REPOSITORY_SIZE, and whose created_at is the time written when
\* the file was initialized.
C29_EnvelopeMatchesCases ==
    (last.op \in MutatingCalls /\ last.exc = "none")
    => /\ metaFile.kind = "json"
       /\ metaFile.total_cases = Len(metaFile.cases)
       /\ metaFile.total_cases <= MAX_REPOSITORY_SIZE
       /\ metaFile.created_at = InitTime

C29_Witness ==
    /\ last.op = "update_case_metadata"
    /\ last.exc = "none"
    /\ last.ret = "True"
    /\ metaFile.total_cases = MAX_REPOSITORY_SIZE
    /\ metaFile.last_updated = LaterTime

====
